---- MODULE Spec2Model ----
(***************************************************************************)
(* Multi-backend video generation: the dispatcher, selector, capability   *)
(* matcher and health monitor of src/video_backends.                       *)
(*                                                                         *)
(* The program runs on one asyncio event loop, so every action below is    *)
(* the code that runs between two suspension points (await) of a           *)
(* coroutine.                                                              *)
(***************************************************************************)
EXTENDS Integers, Sequences, FiniteSets, TLC

(* ------------------------------ bounds -------------------------------- *)
\* number of generate_video calls that may be in flight together
NumCalls == 2
\* largest max_concurrent value a configuration may give a backend
MaxCap == 2
\* longest supported_resolutions list of a backend whose declared
\* capabilities are drawn freely
MaxSupported == 2

Calls == 1..NumCalls

(* ----------------------- values of the program ------------------------- *)
None == "None"

PENDING == "pending"
PROCESSING == "processing"
COMPLETED == "completed"
FAILED == "failed"
CANCELLED == "cancelled"

\* the two error messages of the dispatcher
\* (the source's messages are Chinese: "no backend available" and
\* "all backends are unavailable")
ERR_NO_BACKEND == "no backend available"
ERR_ALL_UNAVAILABLE == "all backends unavailable"
\* messages set by an adapter that returns a failed task: validate_task
\* raised; the submit raised (a transport error or a response other than 200)
\* and the adapter's except block caught it; the provider reported the job
\* as failed to the status poll
ERR_VALIDATION == "validation"
ERR_REMOTE == "remote"
ERR_PROVIDER == "provider"

(* ------------------------- backend_configs ----------------------------- *)
\* keys of self.backend_configs in insertion order
backend_configs == <<"svd", "pika", "luma", "runway">>

BackendNames == {backend_configs[i] : i \in 1..Len(backend_configs)}

\* BackendPriority values: PRIMARY = 1, SECONDARY = 2, FALLBACK = 3
priority ==
  [b \in BackendNames |->
     CASE b = "svd" -> 1
       [] b = "pika" -> 2
       [] b = "luma" -> 2
       [] b = "runway" -> 3]

\* sorted(self.backend_configs.items(), key=priority): a stable sort
sorted_backends ==
  SelectSeq(backend_configs, LAMBDA b : priority[b] = 1) \o
  SelectSeq(backend_configs, LAMBDA b : priority[b] = 2) \o
  SelectSeq(backend_configs, LAMBDA b : priority[b] = 3)

\* the BackendCapabilities each adapter class declares (_get_capabilities)
AdapterCapabilities(b) ==
  CASE b = "svd" ->
         [supports_image_to_video |-> TRUE, max_duration |-> 8,
          supported_resolutions |-> <<"576x1024", "1024x576", "768x768">>,
          supported_fps |-> <<6, 12, 24>>]
    [] b = "pika" ->
         [supports_image_to_video |-> TRUE, max_duration |-> 4,
          supported_resolutions |-> <<"1024x576", "576x1024", "1024x1024">>,
          supported_fps |-> <<24>>]
    [] b = "luma" ->
         [supports_image_to_video |-> TRUE, max_duration |-> 5,
          supported_resolutions |-> <<"1024x576", "576x1024", "768x768">>,
          supported_fps |-> <<30>>]
    [] b = "runway" ->
         [supports_image_to_video |-> TRUE, max_duration |-> 10,
          supported_resolutions |-> <<"1280x720", "1920x1080", "720x1280">>,
          supported_fps |-> <<24, 30>>]

(* ------------------------- small helpers ------------------------------- *)
InSeq(x, s) == \E i \in 1..Len(s) : s[i] = x

SeqToSet(s) == {s[i] : i \in 1..Len(s)}

\* dict.get(k, default)
Get(d, k, default) == IF k \in DOMAIN d THEN d[k] ELSE default

Abs(x) == IF x < 0 THEN -x ELSE x

(* ------------------------------ state ---------------------------------- *)
VARIABLES
  backend_capabilities,  \* the BackendCapabilities of each backend's adapter
  enabled,               \* BackendConfig.enabled of each configured backend
  max_concurrent_tasks,  \* BackendConfig.max_concurrent_tasks
  backends,              \* keys of self.backends: the adapters constructed
  api_key,               \* self.api_key of the pika, luma and runway adapters
  backend_health,        \* self.backend_health (a dict: some keys may be absent)
  backend_tasks,         \* self.backend_tasks (a dict over self.backends)
  pc,                    \* where each generate_video call is
  task,                  \* the task object of each call
  submitted,             \* the task as the caller passed it (history)
  frames,                \* backend_name of every frame of the call that is
                         \* inside its try block (it has reserved the backend
                         \* and awaits its adapter), outermost first
  exclude_backends,      \* the exclude_backends list of the call's failover
  mon_pc,                \* where the health check loop is
  mon_idx,               \* position of the loop in self.backends
  scenes,                \* the scenes given to VideoGenerator.generate_videos
  max_concurrent,        \* VideoGenerator.max_concurrent
  semaphore,             \* the value of the Semaphore of generate_videos
  scene_pc,              \* where the generate_single of each scene is
  completed_tasks,       \* what asyncio.gather has collected for each scene
  results,               \* the list generate_videos returns
  attempt,               \* the frame of the call whose adapter has submitted
  adapter_pc,            \* where the wait loop of the call's adapter is
  waited_time,           \* waited_time of the wait loop
  polls,                 \* get_task_status calls of the wait loop (history)
  health_status,         \* what MultiBackendVideoGenerator.health_check returned
  posted,                \* the backends the call's task was POSTed to (history)
  adapter_tasks,         \* the adapters whose self._tasks holds the call's task
  cancel_returned        \* the cancel_task calls made on an adapter and what they returned

vars == <<backend_capabilities, enabled, max_concurrent_tasks, backends, api_key, backend_health, backend_tasks,
          pc, task, submitted, frames, exclude_backends, mon_pc, mon_idx,
          scenes, max_concurrent, semaphore, scene_pc, completed_tasks, results,
          attempt, adapter_pc, waited_time, polls, health_status, posted,
          adapter_tasks, cancel_returned>>

batch_vars == <<scenes, max_concurrent, semaphore, scene_pc, completed_tasks, results>>
adapter_vars == <<attempt, adapter_pc, waited_time, polls, posted,
                  adapter_tasks, cancel_returned>>

config_vars == <<backend_capabilities, enabled, max_concurrent_tasks, backends, api_key>>
call_vars == <<pc, task, submitted, frames, exclude_backends>>
mon_vars == <<mon_pc, mon_idx>>

\* mutant of backends_items: every enabled backend, constructed or not
backends_items_Enabled == SelectSeq(backend_configs, LAMBDA b : enabled[b])

\* self.backends in insertion order (the order of backend_configs)
backends_items == SelectSeq(backend_configs, LAMBDA b : b \in backends)

\* backend.get_capabilities()
get_capabilities(b) == backend_capabilities[b]

(* ------------------------ capability matcher --------------------------- *)
\* resolution_map of _find_compatible_resolution
resolution_map ==
  [r \in {"1920x1080", "1280x720", "720x1280", "1024x1024"} |->
     CASE r = "1920x1080" -> <<"1920x1080", "1280x720", "1024x576">>
       [] r = "1280x720" -> <<"1280x720", "1024x576", "1920x1080">>
       [] r = "720x1280" -> <<"720x1280", "576x1024">>
       [] r = "1024x1024" -> <<"1024x1024", "768x768">>]

\* resolution_map.get(requested, [requested])
Candidates(requested) ==
  IF requested \in DOMAIN resolution_map
    THEN resolution_map[requested]
    ELSE <<requested>>

\* mutant of FirstSupported: the loops are swapped, the first supported
\* resolution that is a candidate wins
RECURSIVE FirstSupported_SupportedOrder(_, _)
FirstSupported_SupportedOrder(candidates, supported) ==
  IF supported = <<>> THEN None
  ELSE IF InSeq(Head(supported), candidates) THEN Head(supported)
  ELSE FirstSupported_SupportedOrder(candidates, Tail(supported))

\* for candidate in candidates: if candidate in supported: return candidate
RECURSIVE FirstSupported(_, _)
FirstSupported(candidates, supported) ==
  IF candidates = <<>> THEN None
  ELSE IF InSeq(Head(candidates), supported) THEN Head(candidates)
  ELSE FirstSupported(Tail(candidates), supported)

\* mutant of find_compatible_resolution: the first candidate is returned
\* without looking at the supported list
find_compatible_resolution_Unchecked(requested, supported) ==
  Head(Candidates(requested))

\* _find_compatible_resolution(requested, supported)
find_compatible_resolution(requested, supported) ==
  LET found == FirstSupported(Candidates(requested), supported)
  IN  IF found # None THEN found
      ELSE IF supported # <<>> THEN supported[1] ELSE None

\* mutant of MinByDistance: a later element of equal distance replaces the
\* best one
RECURSIVE MinByDistance_LastWins(_, _, _)
MinByDistance_LastWins(rest, best, fps) ==
  IF rest = <<>> THEN best
  ELSE IF Abs(Head(rest) - fps) <= Abs(best - fps)
         THEN MinByDistance_LastWins(Tail(rest), Head(rest), fps)
         ELSE MinByDistance_LastWins(Tail(rest), best, fps)

\* min(supported_fps, key=lambda x: abs(x - fps)): the first element of the
\* list among those of least distance
RECURSIVE MinByDistance(_, _, _)
MinByDistance(rest, best, fps) ==
  IF rest = <<>> THEN best
  ELSE IF Abs(Head(rest) - fps) < Abs(best - fps)
         THEN MinByDistance(Tail(rest), Head(rest), fps)
         ELSE MinByDistance(Tail(rest), best, fps)

nearest_fps(supported_fps, fps) ==
  MinByDistance(Tail(supported_fps), Head(supported_fps), fps)

\* the truth value Python gives task.input_image (None or a path)
HasInputImage(t) == t.input_image # None

\* mutant of SelectLoop: the first available backend is returned as it comes,
\* the task as it came
SelectLoop_FirstAvailable(available, t) ==
  IF available = <<>> THEN [backend |-> None, task |-> t]
  ELSE [backend |-> Head(available), task |-> t]

\* mutant of SelectLoop: the resolution and the frame rate are adapted to a
\* candidate before its image support and its duration limit are tested
RECURSIVE SelectLoop_AdaptsFirst(_, _)
SelectLoop_AdaptsFirst(available, t) ==
  IF available = <<>> THEN [backend |-> None, task |-> t]
  ELSE
    LET b == Head(available)
        capabilities == get_capabilities(b)
        compatible_resolution ==
          find_compatible_resolution(t.resolution,
                                     capabilities.supported_resolutions)
        mismatch == ~InSeq(t.resolution, capabilities.supported_resolutions)
    IN
    IF mismatch /\ compatible_resolution = None
      THEN SelectLoop_AdaptsFirst(Tail(available), t)
    ELSE
      LET t1 == IF mismatch
                  THEN [t EXCEPT !.resolution = compatible_resolution]
                  ELSE t
          t2 == IF ~InSeq(t1.fps, capabilities.supported_fps)
                  THEN [t1 EXCEPT !.fps =
                          nearest_fps(capabilities.supported_fps, t1.fps)]
                  ELSE t1
      IN
      IF HasInputImage(t) /\ ~capabilities.supports_image_to_video
        THEN SelectLoop_AdaptsFirst(Tail(available), t2)
      ELSE IF t.duration > capabilities.max_duration
        THEN SelectLoop_AdaptsFirst(Tail(available), t2)
      ELSE [backend |-> b, task |-> t2]

\* the body of the loop of select_best_backend over the available backends:
\* a record [backend, task], backend = None when the loop runs out
RECURSIVE SelectLoop(_, _)
SelectLoop(available, t) ==
  IF available = <<>> THEN [backend |-> None, task |-> t]
  ELSE
    LET b == Head(available)
        capabilities == get_capabilities(b)
    IN
    IF HasInputImage(t) /\ ~capabilities.supports_image_to_video
      THEN SelectLoop(Tail(available), t)
    ELSE IF t.duration > capabilities.max_duration
      THEN SelectLoop(Tail(available), t)
    ELSE
      LET compatible_resolution ==
            find_compatible_resolution(t.resolution,
                                       capabilities.supported_resolutions)
          mismatch == ~InSeq(t.resolution, capabilities.supported_resolutions)
      IN
      IF mismatch /\ compatible_resolution = None
        THEN SelectLoop(Tail(available), t)
      ELSE
        LET t1 == IF mismatch
                    THEN [t EXCEPT !.resolution = compatible_resolution]
                    ELSE t
            t2 == IF ~InSeq(t1.fps, capabilities.supported_fps)
                    THEN [t1 EXCEPT !.fps =
                            nearest_fps(capabilities.supported_fps, t1.fps)]
                    ELSE t1
        IN [backend |-> b, task |-> t2]

\* mutant of validate_task: the frame rate is not tested
validate_task_NoFpsCheck(b, t) ==
  LET capabilities == get_capabilities(b)
  IN  /\ InSeq(t.resolution, capabilities.supported_resolutions)
      /\ t.duration <= capabilities.max_duration

\* BaseVideoBackend.validate_task: TRUE when it returns, FALSE when it raises
validate_task(b, t) ==
  LET capabilities == get_capabilities(b)
  IN  /\ InSeq(t.resolution, capabilities.supported_resolutions)
      /\ InSeq(t.fps, capabilities.supported_fps)
      /\ t.duration <= capabilities.max_duration

(* ----------------------------- selector -------------------------------- *)
\* mutant of HasCapacity: the capacity test is left out
HasCapacity_NoTest(counts, b) == TRUE

\* the free-capacity test of get_available_backends
HasCapacity(counts, b) == Get(counts, b, 0) < max_concurrent_tasks[b]

\* mutant of IsAvailable: the health flag is not consulted
IsAvailable_NoHealth(health, counts, b) ==
  /\ enabled[b]
  /\ b \in backends
  /\ Get(counts, b, 0) < max_concurrent_tasks[b]

\* the condition of get_available_backends on one backend, on the given
\* values of self.backend_health and self.backend_tasks
IsAvailable(health, counts, b) ==
  /\ enabled[b]
  /\ b \in backends
  /\ Get(health, b, FALSE)
  /\ HasCapacity(counts, b)

\* mutant of get_available_backends: every constructed backend is returned
get_available_backends_Constructed(health, counts) ==
  SelectSeq(sorted_backends, LAMBDA b : b \in backends)

get_available_backends(health, counts) ==
  SelectSeq(sorted_backends, LAMBDA b : IsAvailable(health, counts, b))

\* select_best_backend(task): the backend (or None) and the task as left
select_best_backend(health, counts, t) ==
  SelectLoop(get_available_backends(health, counts), t)

\* mutant of FailoverCandidates: the tried backends are not filtered out
FailoverCandidates_NoExclude(health, counts, excl) ==
  get_available_backends(health, counts)

\* [b for b in self.get_available_backends() if b not in exclude_backends]
FailoverCandidates(health, counts, excl) ==
  SelectSeq(get_available_backends(health, counts), LAMBDA b : ~InSeq(b, excl))

(* ---------------------------- dispatcher ------------------------------- *)
\* self.backend_tasks[backend_name] += 1
Reserve(counts, b) == [counts EXCEPT ![b] = @ + 1]

\* the finally block: max(0, self.backend_tasks[backend_name] - 1)
Release(counts, b) ==
  IF b \in DOMAIN counts
    THEN [counts EXCEPT ![b] = IF @ - 1 > 0 THEN @ - 1 ELSE 0]
    ELSE counts

\* mutant of Unwind: only the innermost frame releases its backend
Unwind_InnermostOnly(counts, stack) ==
  IF stack = <<>> THEN counts ELSE Release(counts, stack[Len(stack)])

\* the finally blocks of the frames of a call, innermost first, as they run
\* when the innermost frame returns
RECURSIVE Unwind(_, _)
Unwind(counts, stack) ==
  IF stack = <<>> THEN counts
  ELSE Unwind(Release(counts, stack[Len(stack)]), SubSeq(stack, 1, Len(stack) - 1))

\* the duration adjustment of PikaBackend and LumaBackend, which follows
\* validate_task in generate_video
ClampDuration(b, t) ==
  CASE b = "pika" /\ t.duration > 4 -> [t EXCEPT !.duration = 4]
    [] b = "luma" /\ t.duration > 5 -> [t EXCEPT !.duration = 5]
    [] OTHER -> t

\* what an adapter's generate_video may return for the task: every adapter
\* runs validate_task first and turns its exception, like every other
\* exception of the submit and of the wait loop, into a failed task
AdapterResults(b, t) ==
  IF validate_task(b, t)
    THEN {[ClampDuration(b, t) EXCEPT !.status = COMPLETED],
          [ClampDuration(b, t) EXCEPT !.status = FAILED,
                                      !.error_message = ERR_REMOTE],
          [ClampDuration(b, t) EXCEPT !.status = FAILED,
                                      !.error_message = ERR_PROVIDER]}
    ELSE {[t EXCEPT !.status = FAILED, !.error_message = ERR_VALIDATION]}

\* generate_video up to its first await: select, then fail or reserve and
\* call the adapter.  Callers are numbered in the order they call.
GenerateStart(c, t) ==
  /\ pc[c] = "idle"
  /\ \A d \in Calls : d < c => pc[d] # "idle"
  /\ submitted' = [submitted EXCEPT ![c] = t]
  /\ LET sel == select_best_backend(backend_health, backend_tasks, t)
     IN  IF sel.backend = None
           THEN /\ task' = [task EXCEPT ![c] =
                              [sel.task EXCEPT !.status = FAILED,
                                               !.error_message = ERR_NO_BACKEND]]
                /\ pc' = [pc EXCEPT ![c] = "done"]
                /\ UNCHANGED <<backend_tasks, frames>>
           ELSE /\ backend_tasks' = Reserve(backend_tasks, sel.backend)
                /\ task' = [task EXCEPT ![c] = sel.task]
                /\ frames' = [frames EXCEPT ![c] = <<sel.backend>>]
                /\ pc' = [pc EXCEPT ![c] = "invoking"]
  /\ UNCHANGED <<config_vars, batch_vars, adapter_vars, health_status, backend_health, exclude_backends, mon_vars>>

\* mutant of AdapterReturns: a task the adapter returns failed marks the
\* backend unhealthy
AdapterReturns_FailedMarksUnhealthy(c) ==
  /\ pc[c] = "invoking"
  /\ LET b == frames[c][Len(frames[c])]
     IN  \E result \in AdapterResults(b, task[c]) :
           /\ task' = [task EXCEPT ![c] = [result EXCEPT !.backend_used = b]]
           /\ backend_health' =
                IF result.status = FAILED
                  THEN [backend_health EXCEPT ![b] = FALSE]
                  ELSE backend_health
  /\ backend_tasks' = Unwind(backend_tasks, frames[c])
  /\ frames' = [frames EXCEPT ![c] = <<>>]
  /\ pc' = [pc EXCEPT ![c] = "done"]
  /\ exclude_backends' = [exclude_backends EXCEPT ![c] = <<>>]
  /\ UNCHANGED <<config_vars, batch_vars, adapter_vars, health_status, submitted, mon_vars>>

\* the awaited adapter call of the innermost frame returns a task: every
\* frame records nothing more and runs its finally block
AdapterReturns(c) ==
  /\ pc[c] = "invoking"
  /\ LET b == frames[c][Len(frames[c])]
     IN  \E result \in AdapterResults(b, task[c]) :
           task' = [task EXCEPT ![c] = [result EXCEPT !.backend_used = b]]
  /\ backend_tasks' = Unwind(backend_tasks, frames[c])
  /\ frames' = [frames EXCEPT ![c] = <<>>]
  /\ pc' = [pc EXCEPT ![c] = "done"]
  /\ exclude_backends' = [exclude_backends EXCEPT ![c] = <<>>]
  /\ UNCHANGED <<config_vars, batch_vars, adapter_vars, health_status, backend_health, submitted, mon_vars>>

\* the awaited adapter call of the innermost frame raises: the except block
\* of generate_video (first attempt) or of _failover_generate (re-attempt),
\* then _failover_generate up to its await.  The four adapters of the
\* repository turn every Exception into a failed task (AdapterResults); the
\* except blocks serve an implementation of BaseVideoBackend.generate_video
\* that lets one escape, which the abstract method allows.
AdapterRaises(c) ==
  /\ pc[c] = "invoking"
  /\ LET b == frames[c][Len(frames[c])]
         first == Len(frames[c]) = 1
         health == IF first THEN [backend_health EXCEPT ![b] = FALSE]
                            ELSE backend_health
         excl == IF first THEN <<b>> ELSE Append(exclude_backends[c], b)
         available_backends == FailoverCandidates(health, backend_tasks, excl)
     IN  /\ backend_health' = health
         /\ IF available_backends = <<>>
              THEN /\ task' = [task EXCEPT ![c] =
                                 [@ EXCEPT !.status = FAILED,
                                           !.error_message = ERR_ALL_UNAVAILABLE]]
                   /\ backend_tasks' = Unwind(backend_tasks, frames[c])
                   /\ frames' = [frames EXCEPT ![c] = <<>>]
                   /\ exclude_backends' = [exclude_backends EXCEPT ![c] = <<>>]
                   /\ pc' = [pc EXCEPT ![c] = "done"]
              ELSE LET next == available_backends[1]
                   IN  /\ backend_tasks' = Reserve(backend_tasks, next)
                       /\ frames' = [frames EXCEPT ![c] = Append(@, next)]
                       /\ exclude_backends' = [exclude_backends EXCEPT ![c] = excl]
                       /\ UNCHANGED <<task, pc>>
  /\ UNCHANGED <<config_vars, batch_vars, adapter_vars, health_status, submitted, mon_vars>>

(* --------------------------- health monitor ---------------------------- *)
\* the loop is at the start of a round: in the for loop if there is a
\* backend to check, in asyncio.sleep(60) otherwise
RoundStart == IF backends_items = <<>> THEN "sleeping" ELSE "checking"

\* mutant of MonitorCheck: a flag is cleared by a failed check and never set
\* again by a good one
MonitorCheck_OnlyMarksUnhealthy(result) ==
  /\ mon_pc = "checking"
  /\ LET b == backends_items[mon_idx]
         is_healthy == (result = "healthy")
     IN  backend_health' = [backend_health EXCEPT ![b] = @ /\ is_healthy]
  /\ IF mon_idx < Len(backends_items)
       THEN mon_idx' = mon_idx + 1 /\ UNCHANGED mon_pc
       ELSE mon_idx' = 1 /\ mon_pc' = "sleeping"
  /\ UNCHANGED <<config_vars, batch_vars, adapter_vars, health_status, backend_tasks, call_vars>>

\* mutant of MonitorCheck: a failed check also clears the backend's count
MonitorCheck_ResetsCount(result) ==
  /\ mon_pc = "checking"
  /\ LET b == backends_items[mon_idx]
         is_healthy == (result = "healthy")
     IN  /\ backend_health' = [backend_health EXCEPT ![b] = is_healthy]
         /\ backend_tasks' = IF is_healthy THEN backend_tasks
                                           ELSE [backend_tasks EXCEPT ![b] = 0]
  /\ IF mon_idx < Len(backends_items)
       THEN mon_idx' = mon_idx + 1 /\ UNCHANGED mon_pc
       ELSE mon_idx' = 1 /\ mon_pc' = "sleeping"
  /\ UNCHANGED <<config_vars, batch_vars, adapter_vars, health_status, call_vars>>

\* mutant of MonitorCheck: a health_check that raises ends the round, the
\* backends after it unchecked
MonitorCheck_AbortsRound(result) ==
  /\ mon_pc = "checking"
  /\ LET b == backends_items[mon_idx]
         is_healthy == (result = "healthy")
     IN  backend_health' = [backend_health EXCEPT ![b] = is_healthy]
  /\ IF mon_idx < Len(backends_items) /\ result # "raises"
       THEN mon_idx' = mon_idx + 1 /\ UNCHANGED mon_pc
       ELSE mon_idx' = 1 /\ mon_pc' = "sleeping"
  /\ UNCHANGED <<config_vars, batch_vars, adapter_vars, health_status, backend_tasks, call_vars>>

\* one iteration of the for loop of _check_all_backends_health: the awaited
\* health_check of the backend returns healthy or unhealthy, or raises
MonitorCheck(result) ==
  /\ mon_pc = "checking"
  /\ LET b == backends_items[mon_idx]
         is_healthy == (result = "healthy")
     IN  backend_health' = [backend_health EXCEPT ![b] = is_healthy]
  /\ IF mon_idx < Len(backends_items)
       THEN mon_idx' = mon_idx + 1 /\ UNCHANGED mon_pc
       ELSE mon_idx' = 1 /\ mon_pc' = "sleeping"
  /\ UNCHANGED <<config_vars, batch_vars, adapter_vars, health_status, backend_tasks, call_vars>>

\* mutant of MonitorWake: the timer of a cancelled loop still fires
MonitorWake_Orphaned ==
  /\ mon_pc \in {"sleeping", "cancelled"}
  /\ mon_pc' = RoundStart
  /\ mon_idx' = 1
  /\ UNCHANGED <<config_vars, batch_vars, adapter_vars, health_status, backend_health, backend_tasks, call_vars>>

\* asyncio.sleep(60) returns and the next round begins
MonitorWake ==
  /\ mon_pc = "sleeping"
  /\ mon_pc' = RoundStart
  /\ mon_idx' = 1
  /\ UNCHANGED <<config_vars, batch_vars, adapter_vars, health_status, backend_health, backend_tasks, call_vars>>

\* cleanup cancels the health check task and awaits it; the task is
\* suspended in health_check (mon_pc "checking") or in asyncio.sleep
CleanupCancel ==
  /\ mon_pc \in {"checking", "sleeping"}
  /\ mon_pc' = "cancelling"
  /\ UNCHANGED <<config_vars, batch_vars, adapter_vars, health_status, backend_health, backend_tasks, call_vars, mon_idx>>

\* CancelledError is thrown at the await the loop is suspended in; it is no
\* Exception (Python 3.8 and later, which setup.py requires), so neither
\* except clause of the loop handles it: the task ends with no write, and
\* the await of cleanup returns. No adapter defines cleanup.
MonitorCancelled ==
  /\ mon_pc = "cancelling"
  /\ mon_pc' = "cancelled"
  /\ UNCHANGED <<config_vars, batch_vars, adapter_vars, health_status, backend_health, backend_tasks, call_vars, mon_idx>>

(* --------------------------- specification ----------------------------- *)
HealthResults == {"healthy", "unhealthy", "raises"}

\* a task as VideoGenerator builds it from a scene
NewTask(resolution, fps, duration, input_image) ==
  [resolution |-> resolution, fps |-> fps, duration |-> duration,
   input_image |-> input_image, status |-> PENDING, error_message |-> None,
   backend_used |-> None]

\* the tasks the callers submit
Tasks == {NewTask("1920x1080", 24, 3, None)}

\* the value of task and submitted for a call not made yet
NoTask == NewTask(None, 0, 0, None)

\* adapters whose constructor may raise in _initialize_backends
MayFailInit == {"luma"}
\* the enabled flags of the default configuration: runway is off
DefaultEnabled == [b \in BackendNames |-> b # "runway"]

\* the placeholder the example configuration has for an API key
PLACEHOLDER == "your-api-key-here"

\* every adapter is given a key of its provider
AllKeys == [b \in BackendNames |-> "key"]

\* VideoGenerator.max_concurrent when the configuration gives none
DefaultMaxConcurrent == 3

\* generate_videos has not been called
NoBatch ==
  /\ scenes = <<>>
  /\ max_concurrent = DefaultMaxConcurrent
  /\ semaphore = DefaultMaxConcurrent
  /\ scene_pc = <<>>
  /\ completed_tasks = <<>>
  /\ results = <<>>

\* no adapter has been called
NoAdapterCall ==
  /\ attempt = [c \in Calls |-> 0]
  /\ adapter_pc = [c \in Calls |-> "polling"]
  /\ waited_time = [c \in Calls |-> 0]
  /\ polls = [c \in Calls |-> 0]
  /\ posted = [c \in Calls |-> {}]
  /\ adapter_tasks = [c \in Calls |-> {}]
  /\ cancel_returned = <<>>

\* health_check of the generator has not been called
NoSnapshot == health_status = [overall_status |-> None, backends |-> <<>>]

\* the state after MultiBackendVideoGenerator.__init__; max_concurrent is 1,
\* the least a backend can take, or MaxCap for every backend
Init ==
  /\ backend_capabilities = [b \in BackendNames |-> AdapterCapabilities(b)]
  /\ enabled = DefaultEnabled
  /\ \E m \in {1, MaxCap} : max_concurrent_tasks = [b \in BackendNames |-> m]
  /\ api_key = AllKeys
  /\ \E failed \in SUBSET MayFailInit :
       backends = {b \in BackendNames : enabled[b]} \ failed
  /\ backend_health = [b \in {x \in BackendNames : enabled[x]} |-> b \in backends]
  /\ backend_tasks = [b \in backends |-> 0]
  /\ pc = [c \in Calls |-> "idle"]
  /\ task = [c \in Calls |-> NoTask]
  /\ submitted = [c \in Calls |-> NoTask]
  /\ frames = [c \in Calls |-> <<>>]
  /\ exclude_backends = [c \in Calls |-> <<>>]
  /\ mon_pc = RoundStart
  /\ mon_idx = 1
  /\ NoBatch
  /\ NoAdapterCall
  /\ NoSnapshot

Next ==
  \/ \E c \in Calls, t \in Tasks : GenerateStart(c, t)
  \/ \E c \in Calls : AdapterReturns(c)
  \/ \E c \in Calls : AdapterRaises(c)
  \/ \E result \in HealthResults : MonitorCheck(result)
  \/ MonitorWake

Spec == Init /\ [][Next]_vars

\* an awaited adapter call ends: every adapter bounds its wait loop, so the
\* call returns or raises
FairSpec ==
  Spec /\ \A c \in Calls : WF_vars(AdapterReturns(c) \/ AdapterRaises(c))

(* ------------ the selector on a backend of any capabilities ------------ *)
\* resolutions a freely declared backend may support
CapResolutions == {"1280x720", "1024x576", "768x768"}

\* the lists without repetition of at most n elements of S
RECURSIVE ListsUpTo(_, _)
ListsUpTo(S, n) ==
  IF n = 0 THEN {<<>>}
  ELSE LET shorter == ListsUpTo(S, n - 1)
       IN  shorter \cup
           UNION {{Append(q, x) : x \in S \ SeqToSet(q)} : q \in shorter}

\* the capabilities a backend may declare
CapChoices ==
  [supports_image_to_video : BOOLEAN,
   max_duration : {4, 10},
   supported_resolutions : ListsUpTo(CapResolutions, MaxSupported),
   supported_fps : {<<24>>, <<24, 30>>, <<30, 24>>, <<6, 12, 24>>}]

\* the tasks given to the selector
CapTasks ==
  {NewTask(r, f, d, i) :
     r \in {"1920x1080", "1024x1024", "1024x576", "640x480"},
     f \in {9, 24, 27},
     d \in {3, 10},
     i \in {None, "image.png"}}

\* one enabled backend declares any capabilities of CapChoices, the others
\* are the adapters of the program, each enabled or not; every constructed
\* backend is healthy and free
CapInit ==
  /\ \E g \in BackendNames :
       /\ backend_capabilities \in
            {[b \in BackendNames |-> IF b = g THEN k ELSE AdapterCapabilities(b)] :
               k \in CapChoices}
       /\ enabled \in {e \in [BackendNames -> BOOLEAN] : e[g]}
  /\ max_concurrent_tasks = [b \in BackendNames |-> MaxCap]
  /\ api_key = AllKeys
  /\ backends = {b \in BackendNames : enabled[b]}
  /\ backend_health = [b \in backends |-> TRUE]
  /\ backend_tasks = [b \in backends |-> 0]
  /\ pc = [c \in Calls |-> "idle"]
  /\ task = [c \in Calls |-> NoTask]
  /\ submitted = [c \in Calls |-> NoTask]
  /\ frames = [c \in Calls |-> <<>>]
  /\ exclude_backends = [c \in Calls |-> <<>>]
  /\ mon_pc = RoundStart
  /\ mon_idx = 1
  /\ NoBatch
  /\ NoAdapterCall
  /\ NoSnapshot

CapNext == \E t \in CapTasks : GenerateStart(1, t)

CapSpec == CapInit /\ [][CapNext]_vars

(* ------------------ one caller and the health monitor ------------------ *)
OneCallNext ==
  \/ \E t \in Tasks : GenerateStart(1, t)
  \/ AdapterReturns(1)
  \/ AdapterRaises(1)
  \/ \E result \in HealthResults : MonitorCheck(result)
  \/ MonitorWake

OneCallSpec == Init /\ [][OneCallNext]_vars

(* ---------------- one caller, the monitor and shutdown ---------------- *)
ShutdownNext ==
  \/ OneCallNext
  \/ CleanupCancel
  \/ MonitorCancelled

ShutdownSpec == Init /\ [][ShutdownNext]_vars

(* ------------------- VideoGenerator.generate_videos ------------------- *)
\* str(e) of the TypeError Python raises when it compares None with a number
ERR_TYPE == "TypeError"

\* the scenes a caller may pass: 'duration' a number, or present with no
\* number in it (None); every other key is absent
\* stands for Python's None where the task holds a number: TLC compares
\* only values of one type
NoNumber == -1

SceneChoices == {[duration |-> 1], [duration |-> 2], [duration |-> NoNumber]}

\* the VideoGenerationTask generate_videos builds from a scene
SceneTask(scene) == NewTask("1280x720", 24, scene.duration, None)

Scenes == 1..Len(scenes)

\* a slot of gather not filled yet
NoOutcome == [raised |-> FALSE, error |-> None, task |-> NoTask]

\* select_best_backend raises in generate_video before the try block: the
\* loop reaches task.duration > capabilities.max_duration on the first
\* available backend that passes the image test, and the duration is None
SelectRaises(c, t) ==
  /\ pc[c] = "idle"
  /\ \A d \in Calls : d < c => pc[d] # "idle"
  /\ t.duration = NoNumber
  /\ \E b \in SeqToSet(get_available_backends(backend_health, backend_tasks)) :
       ~(HasInputImage(t) /\ ~get_capabilities(b).supports_image_to_video)
  /\ submitted' = [submitted EXCEPT ![c] = t]
  /\ task' = [task EXCEPT ![c] = t]
  /\ pc' = [pc EXCEPT ![c] = "raised"]
  /\ UNCHANGED <<config_vars, batch_vars, adapter_vars, health_status, backend_health, backend_tasks,
                 frames, exclude_backends, mon_vars>>

\* mutant of SceneAcquire: the semaphore lets every scene in
SceneAcquire_NoWait(i) ==
  /\ scene_pc[i] = "waiting"
  /\ \A j \in Scenes : j < i => scene_pc[j] # "waiting"
  /\ semaphore' = semaphore - 1
  /\ scene_pc' = [scene_pc EXCEPT ![i] = "acquired"]
  /\ UNCHANGED <<config_vars, adapter_vars, health_status, backend_health, backend_tasks, call_vars, mon_vars,
                 scenes, max_concurrent, completed_tasks, results>>

\* async with semaphore: a scene enters when the value is positive; the
\* waiters of an asyncio.Semaphore are served in the order they came, which
\* is the order of the list gather was given
SceneAcquire(i) ==
  /\ scene_pc[i] = "waiting"
  /\ \A j \in Scenes : j < i => scene_pc[j] # "waiting"
  /\ semaphore > 0
  /\ semaphore' = semaphore - 1
  /\ scene_pc' = [scene_pc EXCEPT ![i] = "acquired"]
  /\ UNCHANGED <<config_vars, adapter_vars, health_status, backend_health, backend_tasks, call_vars, mon_vars,
                 scenes, max_concurrent, completed_tasks, results>>

\* self.multi_backend.generate_video(task) up to its first await, or to the
\* exception of the selector
SceneEnter(i) ==
  /\ scene_pc[i] = "acquired"
  /\ \/ SelectRaises(i, SceneTask(scenes[i]))
     \/ /\ ~ENABLED SelectRaises(i, SceneTask(scenes[i]))
        /\ GenerateStart(i, SceneTask(scenes[i]))

\* what generate_single ends with: the task generate_video returned or the
\* exception it raised
Outcome(i) ==
  IF pc[i] = "raised"
    THEN [raised |-> TRUE, error |-> ERR_TYPE, task |-> NoTask]
    ELSE [raised |-> FALSE, error |-> None, task |-> task[i]]

\* mutant of Gathered: an outcome takes the first free slot
Gathered_CompletionOrder(collected, i, outcome) ==
  LET free == {k \in DOMAIN collected : collected[k] = NoOutcome}
      k == CHOOSE x \in free : \A y \in free : x <= y
  IN  [collected EXCEPT ![k] = outcome]

\* asyncio.gather(..., return_exceptions=True) keeps what the i-th awaitable
\* returned or raised at position i
Gathered(collected, i, outcome) == [collected EXCEPT ![i] = outcome]

\* generate_video has returned or raised: the semaphore is released and
\* gather takes the outcome
SceneRelease(i) ==
  /\ scene_pc[i] = "acquired"
  /\ pc[i] \in {"done", "raised"}
  /\ semaphore' = semaphore + 1
  /\ scene_pc' = [scene_pc EXCEPT ![i] = "finished"]
  /\ completed_tasks' = Gathered(completed_tasks, i, Outcome(i))
  /\ UNCHANGED <<config_vars, adapter_vars, health_status, backend_health, backend_tasks, call_vars, mon_vars,
                 scenes, max_concurrent, results>>

\* mutant of ResultEntry: the entry of an exception is left out
ResultEntry_DropsExceptions(i, result) ==
  IF result.raised
    THEN <<>>
    ELSE LET success == result.task.status = COMPLETED
         IN  <<[scene_index |-> i - 1,
                success |-> success,
                error |-> IF ~success THEN result.task.error_message ELSE None,
                backend_used |-> IF result.task.backend_used = None
                                   THEN "unknown" ELSE result.task.backend_used,
                duration |-> result.task.duration,
                resolution |-> result.task.resolution]>>

\* the entry appended for one element of completed_tasks, i its position
\* (enumerate counts from 0)
ResultEntry(i, result) ==
  IF result.raised
    THEN <<[scene_index |-> i - 1, success |-> FALSE, error |-> result.error]>>
    ELSE LET success == result.task.status = COMPLETED
         IN  <<[scene_index |-> i - 1,
                success |-> success,
                error |-> IF ~success THEN result.task.error_message ELSE None,
                backend_used |-> IF result.task.backend_used = None
                                   THEN "unknown" ELSE result.task.backend_used,
                duration |-> result.task.duration,
                resolution |-> result.task.resolution]>>

\* the loop over enumerate(completed_tasks)
RECURSIVE BuildResults(_, _)
BuildResults(collected, i) ==
  IF i > Len(collected) THEN <<>>
  ELSE ResultEntry(i, collected[i]) \o BuildResults(collected, i + 1)

\* gather returns when every generate_single has ended, and the results are
\* built
BatchCollect ==
  /\ scenes # <<>>
  /\ results = <<>>
  /\ \A i \in Scenes : scene_pc[i] = "finished"
  /\ results' = BuildResults(completed_tasks, 1)
  /\ UNCHANGED <<config_vars, adapter_vars, health_status, backend_health, backend_tasks, call_vars, mon_vars,
                 scenes, max_concurrent, semaphore, scene_pc, completed_tasks>>

\* the limits max_concurrent_requests is given
MaxConcurrentChoices == {1, NumCalls}

\* generate_videos has built its tasks and its semaphore; the generator is
\* as constructed, every backend with the same cap
BatchInit ==
  /\ backend_capabilities = [b \in BackendNames |-> AdapterCapabilities(b)]
  /\ enabled = DefaultEnabled
  /\ max_concurrent_tasks = [b \in BackendNames |-> MaxCap]
  /\ api_key = AllKeys
  /\ backends = {b \in BackendNames : enabled[b]}
  /\ backend_health = [b \in backends |-> TRUE]
  /\ backend_tasks = [b \in backends |-> 0]
  /\ pc = [c \in Calls |-> "idle"]
  /\ task = [c \in Calls |-> NoTask]
  /\ submitted = [c \in Calls |-> NoTask]
  /\ frames = [c \in Calls |-> <<>>]
  /\ exclude_backends = [c \in Calls |-> <<>>]
  /\ mon_pc = RoundStart
  /\ mon_idx = 1
  /\ scenes \in [Calls -> SceneChoices]
  /\ max_concurrent \in MaxConcurrentChoices
  /\ semaphore = max_concurrent
  /\ scene_pc = [i \in Calls |-> "waiting"]
  /\ completed_tasks = [i \in Calls |-> NoOutcome]
  /\ results = <<>>
  /\ NoAdapterCall
  /\ NoSnapshot

BatchNext ==
  \/ \E i \in Scenes : SceneAcquire(i)
  \/ \E i \in Scenes : SceneEnter(i)
  \/ \E i \in Scenes : AdapterReturns(i)
  \/ \E i \in Scenes : AdapterRaises(i)
  \/ \E i \in Scenes : SceneRelease(i)
  \/ BatchCollect

BatchSpec == BatchInit /\ [][BatchNext]_vars

(* ------------- a batch larger than the backends' capacity ------------- *)
\* generate_videos has built its tasks and its semaphore; every backend is
\* configured with max_concurrent 1 and the monitor has left the health
\* flags in any state
QuotaInit ==
  /\ backend_capabilities = [b \in BackendNames |-> AdapterCapabilities(b)]
  /\ enabled = DefaultEnabled
  /\ max_concurrent_tasks = [b \in BackendNames |-> 1]
  /\ api_key = AllKeys
  /\ backends = {b \in BackendNames : enabled[b]}
  /\ backend_health \in [backends -> BOOLEAN]
  /\ backend_tasks = [b \in backends |-> 0]
  /\ pc = [c \in Calls |-> "idle"]
  /\ task = [c \in Calls |-> NoTask]
  /\ submitted = [c \in Calls |-> NoTask]
  /\ frames = [c \in Calls |-> <<>>]
  /\ exclude_backends = [c \in Calls |-> <<>>]
  /\ mon_pc = RoundStart
  /\ mon_idx = 1
  /\ scenes \in [Calls -> SceneChoices]
  /\ max_concurrent \in MaxConcurrentChoices
  /\ semaphore = max_concurrent
  /\ scene_pc = [i \in Calls |-> "waiting"]
  /\ completed_tasks = [i \in Calls |-> NoOutcome]
  /\ results = <<>>
  /\ NoAdapterCall
  /\ NoSnapshot

QuotaSpec == QuotaInit /\ [][BatchNext]_vars

(* --------------- MultiBackendVideoGenerator.health_check --------------- *)
\* unhealthy_count after the loop over self.backends.items(): answers gives
\* what the health_check of each backend did
RECURSIVE UnhealthyCount(_, _)
UnhealthyCount(items, answers) ==
  IF items = <<>> THEN 0
  ELSE (IF answers[Head(items)] # "healthy" THEN 1 ELSE 0)
         + UnhealthyCount(Tail(items), answers)

\* mutant of OverallStatus: one unhealthy backend makes the whole unhealthy
OverallStatus_AnyUnhealthy(unhealthy_count, n) ==
  IF unhealthy_count > 0 THEN "unhealthy" ELSE "healthy"

\* overall_status from unhealthy_count and len(self.backends)
OverallStatus(unhealthy_count, n) ==
  IF unhealthy_count = n THEN "unhealthy"
  ELSE IF unhealthy_count > 0 THEN "degraded"
  ELSE "healthy"

\* health_check of the generator: it asks every constructed backend and
\* returns the summary; self.backend_health is neither read nor written
HealthSnapshot(answers) ==
  /\ health_status' =
       [overall_status |-> OverallStatus(UnhealthyCount(backends_items, answers),
                                        Cardinality(backends)),
        backends |-> [b \in backends |->
                        IF answers[b] = "healthy" THEN "healthy" ELSE "unhealthy"]]
  /\ UNCHANGED <<config_vars, batch_vars, adapter_vars, backend_health,
                 backend_tasks, call_vars, mon_vars>>

\* a generator of any configuration, any constructor may have failed
SnapInit ==
  /\ backend_capabilities = [b \in BackendNames |-> AdapterCapabilities(b)]
  /\ enabled \in [BackendNames -> BOOLEAN]
  /\ max_concurrent_tasks = [b \in BackendNames |-> MaxCap]
  /\ api_key = AllKeys
  /\ backends \in SUBSET {b \in BackendNames : enabled[b]}
  /\ backend_health = [b \in {x \in BackendNames : enabled[x]} |-> b \in backends]
  /\ backend_tasks = [b \in backends |-> 0]
  /\ pc = [c \in Calls |-> "idle"]
  /\ task = [c \in Calls |-> NoTask]
  /\ submitted = [c \in Calls |-> NoTask]
  /\ frames = [c \in Calls |-> <<>>]
  /\ exclude_backends = [c \in Calls |-> <<>>]
  /\ mon_pc = RoundStart
  /\ mon_idx = 1
  /\ NoBatch
  /\ NoAdapterCall
  /\ NoSnapshot

SnapNext ==
  \/ \E answers \in [backends -> HealthResults] : HealthSnapshot(answers)
  \/ \E result \in HealthResults : MonitorCheck(result)
  \/ MonitorWake

SnapSpec == SnapInit /\ [][SnapNext]_vars

(* -------------- generate_video of the adapters, step by step ----------- *)
\* the message of a wait loop that ran out of time
ERR_TIMEOUT == "timeout"

\* max_wait_time and check_interval of each adapter's _wait_for_completion
WaitLimits(b) ==
  CASE b = "svd" -> [max_wait_time |-> 600, check_interval |-> 5]
    [] b = "pika" -> [max_wait_time |-> 300, check_interval |-> 5]
    [] b = "luma" -> [max_wait_time |-> 240, check_interval |-> 5]
    [] b = "runway" -> [max_wait_time |-> 600, check_interval |-> 10]

\* what the GET of get_task_status brings: a status of the provider's (luma
\* says queued for pending and dreaming for processing), "other" for a
\* status the status_map has no key for, "error" for anything but a 200
ProviderAnswers == {"pending", "processing", "completed", "failed", "other", "error"}

\* mutant of status_map: a status without a key is taken as a failure
status_map_UnknownFails(answer) ==
  CASE answer = "pending" -> PENDING
    [] answer = "processing" -> PROCESSING
    [] answer = "completed" -> COMPLETED
    [] answer = "failed" -> FAILED
    [] OTHER -> FAILED

\* status_map.get(status, TaskStatus.PENDING)
status_map(answer) ==
  CASE answer = "pending" -> PENDING
    [] answer = "processing" -> PROCESSING
    [] answer = "completed" -> COMPLETED
    [] answer = "failed" -> FAILED
    [] OTHER -> PENDING

\* get_task_status of adapter b on the stored task: the task as it leaves it
get_task_status(b, t, answer) ==
  IF answer = "error"
    THEN [t EXCEPT !.status = FAILED, !.error_message = ERR_REMOTE]
    ELSE [t EXCEPT !.status = status_map(answer),
                   !.error_message = IF answer = "failed" THEN ERR_PROVIDER
                                     ELSE IF b = "svd" THEN None ELSE @]

\* the backend whose adapter the call awaits
Current(c) == frames[c][Len(frames[c])]

\* the adapter of the innermost frame has been called and has not submitted
Starting(c) == pc[c] = "invoking" /\ attempt[c] # Len(frames[c])

\* the adapter of the innermost frame is in its wait loop
Waiting(c) == pc[c] = "invoking" /\ attempt[c] = Len(frames[c])

\* the adapter returns result: the rest of generate_video or of every frame
\* of _failover_generate, as in AdapterReturns
Returned(c, result) ==
  /\ task' = [task EXCEPT ![c] = [result EXCEPT !.backend_used = Current(c)]]
  /\ backend_tasks' = Unwind(backend_tasks, frames[c])
  /\ frames' = [frames EXCEPT ![c] = <<>>]
  /\ pc' = [pc EXCEPT ![c] = "done"]
  /\ exclude_backends' = [exclude_backends EXCEPT ![c] = <<>>]

\* the API key test of generate_video and of health_check: SVDBackend has
\* no key and no test
HasCredentials(b) == b = "svd" \/ api_key[b] \notin {None, PLACEHOLDER}

SubmitOutcomes == {"refused", "accepted"}

\* mutant of AdapterSubmit: the POST is sent before the key and the task are
\* tested
AdapterSubmit_PostsFirst(c, outcome) ==
  /\ Starting(c)
  /\ LET b == Current(c)
         t == task[c]
     IN  /\ posted' = [posted EXCEPT ![c] = @ \cup {b}]
         /\ IF ~HasCredentials(b)
              THEN /\ Returned(c, [t EXCEPT !.status = FAILED,
                                            !.error_message = ERR_REMOTE])
                   /\ UNCHANGED <<attempt, adapter_pc, waited_time, polls,
                                  adapter_tasks, cancel_returned>>
            ELSE IF ~validate_task(b, t)
              THEN /\ Returned(c, [t EXCEPT !.status = FAILED,
                                            !.error_message = ERR_VALIDATION])
                   /\ UNCHANGED <<attempt, adapter_pc, waited_time, polls,
                                  adapter_tasks, cancel_returned>>
            ELSE IF outcome # "accepted"
              THEN /\ Returned(c, [ClampDuration(b, t) EXCEPT
                                     !.status = FAILED, !.error_message = ERR_REMOTE])
                   /\ UNCHANGED <<attempt, adapter_pc, waited_time, polls,
                                  adapter_tasks, cancel_returned>>
            ELSE /\ task' = [task EXCEPT ![c] =
                               [ClampDuration(b, t) EXCEPT !.status = PROCESSING]]
                 /\ attempt' = [attempt EXCEPT ![c] = Len(frames[c])]
                 /\ adapter_pc' = [adapter_pc EXCEPT ![c] = "polling"]
                 /\ waited_time' = [waited_time EXCEPT ![c] = 0]
                 /\ polls' = [polls EXCEPT ![c] = 0]
                 /\ adapter_tasks' = [adapter_tasks EXCEPT ![c] = @ \cup {b}]
                 /\ UNCHANGED <<backend_tasks, frames, pc, exclude_backends,
                                cancel_returned>>
  /\ UNCHANGED <<config_vars, batch_vars, health_status, backend_health,
                 submitted, mon_vars>>

\* generate_video of the adapter up to its wait loop: the API key test (svd
\* has none), validate_task, the duration adjustment and the POST, which the
\* provider accepts or not.  Every exception ends in the except block, which
\* returns the task failed.
AdapterSubmit(c, outcome) ==
  /\ Starting(c)
  /\ LET b == Current(c)
         t == task[c]
     IN  IF ~HasCredentials(b)
           THEN /\ Returned(c, [t EXCEPT !.status = FAILED,
                                         !.error_message = ERR_REMOTE])
                /\ UNCHANGED adapter_vars
         ELSE IF ~validate_task(b, t)
           THEN /\ Returned(c, [t EXCEPT !.status = FAILED,
                                         !.error_message = ERR_VALIDATION])
                /\ UNCHANGED adapter_vars
         ELSE IF outcome # "accepted"
           THEN /\ Returned(c, [ClampDuration(b, t) EXCEPT
                                  !.status = FAILED, !.error_message = ERR_REMOTE])
                /\ posted' = [posted EXCEPT ![c] = @ \cup {b}]
                /\ UNCHANGED <<attempt, adapter_pc, waited_time, polls,
                               adapter_tasks, cancel_returned>>
         ELSE /\ task' = [task EXCEPT ![c] =
                            [ClampDuration(b, t) EXCEPT !.status = PROCESSING]]
              /\ posted' = [posted EXCEPT ![c] = @ \cup {b}]
              /\ attempt' = [attempt EXCEPT ![c] = Len(frames[c])]
              /\ adapter_pc' = [adapter_pc EXCEPT ![c] = "polling"]
              /\ waited_time' = [waited_time EXCEPT ![c] = 0]
              /\ polls' = [polls EXCEPT ![c] = 0]
              /\ adapter_tasks' = [adapter_tasks EXCEPT ![c] = @ \cup {b}]
              /\ UNCHANGED <<backend_tasks, frames, pc, exclude_backends,
                             cancel_returned>>
  /\ UNCHANGED <<config_vars, batch_vars, health_status, backend_health,
                 submitted, mon_vars>>

\* one get_task_status of the wait loop: a completed or failed task is
\* returned, otherwise the loop sleeps
AdapterPoll(c, answer) ==
  /\ Waiting(c)
  /\ adapter_pc[c] = "polling"
  /\ polls' = [polls EXCEPT ![c] = @ + 1]
  /\ LET updated_task == get_task_status(Current(c), task[c], answer)
     IN  IF updated_task.status \in {COMPLETED, FAILED}
           THEN /\ Returned(c, updated_task)
                /\ UNCHANGED adapter_pc
           ELSE /\ task' = [task EXCEPT ![c] = updated_task]
                /\ adapter_pc' = [adapter_pc EXCEPT ![c] = "sleeping"]
                /\ UNCHANGED <<backend_tasks, frames, pc, exclude_backends>>
  /\ UNCHANGED <<config_vars, batch_vars, health_status, backend_health,
                 submitted, mon_vars, attempt, waited_time, posted,
                 adapter_tasks, cancel_returned>>

\* mutant of AdapterSleepEnds: the loop runs while waited_time is at most
\* max_wait_time
AdapterSleepEnds_OneMore(c) ==
  /\ Waiting(c)
  /\ adapter_pc[c] = "sleeping"
  /\ LET limits == WaitLimits(Current(c))
         waited == waited_time[c] + limits.check_interval
     IN  /\ waited_time' = [waited_time EXCEPT ![c] = waited]
         /\ IF waited <= limits.max_wait_time
              THEN /\ adapter_pc' = [adapter_pc EXCEPT ![c] = "polling"]
                   /\ UNCHANGED call_vars
                   /\ UNCHANGED backend_tasks
              ELSE /\ Returned(c, [task[c] EXCEPT !.status = FAILED,
                                                  !.error_message = ERR_TIMEOUT])
                   /\ UNCHANGED submitted
                   /\ UNCHANGED adapter_pc
  /\ UNCHANGED <<config_vars, batch_vars, health_status, backend_health,
                 mon_vars, attempt, polls, posted, adapter_tasks,
                 cancel_returned>>

\* mutant of AdapterSleepEnds: the loop that ran out of time returns the
\* task as the last poll left it
AdapterSleepEnds_KeepsStatus(c) ==
  /\ Waiting(c)
  /\ adapter_pc[c] = "sleeping"
  /\ LET limits == WaitLimits(Current(c))
         waited == waited_time[c] + limits.check_interval
     IN  /\ waited_time' = [waited_time EXCEPT ![c] = waited]
         /\ IF waited < limits.max_wait_time
              THEN /\ adapter_pc' = [adapter_pc EXCEPT ![c] = "polling"]
                   /\ UNCHANGED call_vars
                   /\ UNCHANGED backend_tasks
              ELSE /\ Returned(c, task[c])
                   /\ UNCHANGED submitted
                   /\ UNCHANGED adapter_pc
  /\ UNCHANGED <<config_vars, batch_vars, health_status, backend_health,
                 mon_vars, attempt, polls, posted, adapter_tasks,
                 cancel_returned>>

\* asyncio.sleep(check_interval) returns: waited_time grows, and the loop
\* polls again or, out of time, fails the task and returns it
AdapterSleepEnds(c) ==
  /\ Waiting(c)
  /\ adapter_pc[c] = "sleeping"
  /\ LET limits == WaitLimits(Current(c))
         waited == waited_time[c] + limits.check_interval
     IN  /\ waited_time' = [waited_time EXCEPT ![c] = waited]
         /\ IF waited < limits.max_wait_time
              THEN /\ adapter_pc' = [adapter_pc EXCEPT ![c] = "polling"]
                   /\ UNCHANGED call_vars
                   /\ UNCHANGED backend_tasks
              ELSE /\ Returned(c, [task[c] EXCEPT !.status = FAILED,
                                                  !.error_message = ERR_TIMEOUT])
                   /\ UNCHANGED submitted
                   /\ UNCHANGED adapter_pc
  /\ UNCHANGED <<config_vars, batch_vars, health_status, backend_health,
                 mon_vars, attempt, polls, posted, adapter_tasks,
                 cancel_returned>>

\* cancel_task reaches the adapter that stored the task and the provider
\* accepts (luma asks no provider): the stored task, which is the caller's
\* task object, is marked cancelled whatever its status
CancelTask(c) ==
  /\ attempt[c] > 0
  /\ task[c].status # CANCELLED
  /\ task' = [task EXCEPT ![c] = [@ EXCEPT !.status = CANCELLED]]
  /\ UNCHANGED <<config_vars, batch_vars, adapter_vars, health_status,
                 backend_health, backend_tasks, pc, submitted, frames,
                 exclude_backends, mon_vars>>

AdapterNext ==
  \/ \E t \in Tasks : GenerateStart(1, t)
  \/ \E outcome \in SubmitOutcomes : AdapterSubmit(1, outcome)
  \/ \E answer \in ProviderAnswers : AdapterPoll(1, answer)
  \/ AdapterSleepEnds(1)
  \/ AdapterRaises(1)
  \/ CancelTask(1)

\* the generator as constructed, pika and luma with a key, with the
\* placeholder or with none
AdapterInit ==
  /\ backend_capabilities = [b \in BackendNames |-> AdapterCapabilities(b)]
  /\ enabled = DefaultEnabled
  /\ max_concurrent_tasks = [b \in BackendNames |-> MaxCap]
  /\ api_key \in {k \in [BackendNames -> {"key", PLACEHOLDER, None}] :
                     k["svd"] = "key" /\ k["runway"] = "key"}
  /\ backends = {b \in BackendNames : enabled[b]}
  /\ backend_health = [b \in backends |-> TRUE]
  /\ backend_tasks = [b \in backends |-> 0]
  /\ pc = [c \in Calls |-> "idle"]
  /\ task = [c \in Calls |-> NoTask]
  /\ submitted = [c \in Calls |-> NoTask]
  /\ frames = [c \in Calls |-> <<>>]
  /\ exclude_backends = [c \in Calls |-> <<>>]
  /\ mon_pc = RoundStart
  /\ mon_idx = 1
  /\ NoBatch
  /\ NoAdapterCall
  /\ NoSnapshot

AdapterSpec == AdapterInit /\ [][AdapterNext]_vars

(* ----------------- adapters with and without their key ---------------- *)
\* what health_check of the adapter of b returns: unhealthy without a
\* request when the key is missing or the placeholder, otherwise what the
\* provider's answer makes it; every exception is caught and reported
\* unhealthy
HealthAnswers(b) ==
  IF HasCredentials(b) THEN {"healthy", "unhealthy"} ELSE {"unhealthy"}

CredNext ==
  \/ \E t \in Tasks : GenerateStart(1, t)
  \/ \E outcome \in SubmitOutcomes : AdapterSubmit(1, outcome)
  \/ \E answer \in ProviderAnswers : AdapterPoll(1, answer)
  \/ AdapterSleepEnds(1)
  \/ AdapterRaises(1)
  \/ \E result \in HealthAnswers(backends_items[mon_idx]) : MonitorCheck(result)
  \/ MonitorWake

\* as AdapterInit, the key of pika alone in doubt
CredInit == AdapterInit /\ api_key["luma"] = "key"

CredSpec == CredInit /\ [][CredNext]_vars

(* --------------------- cancel_task of LumaBackend --------------------- *)
MaxCancels == 2

\* the task ids cancel_task is called with: the id of a call's task, or 0,
\* an id no task has
TaskIds == 0..NumCalls

\* task_id in self._tasks, for the adapter of backend b
InTasks(b, task_id) == task_id \in Calls /\ b \in adapter_tasks[task_id]

\* mutant of LumaCancel: every task of the generator is taken as stored
LumaCancel_AnyTask(task_id) ==
  /\ Len(cancel_returned) < MaxCancels
  /\ IF task_id \in Calls
       THEN /\ task' = [task EXCEPT ![task_id] = [@ EXCEPT !.status = CANCELLED]]
            /\ cancel_returned' = Append(cancel_returned,
                                         [task_id |-> task_id, returned |-> TRUE])
       ELSE /\ cancel_returned' = Append(cancel_returned,
                                         [task_id |-> task_id, returned |-> FALSE])
            /\ UNCHANGED task
  /\ UNCHANGED <<config_vars, batch_vars, health_status, backend_health,
                 backend_tasks, pc, submitted, frames, exclude_backends,
                 mon_vars, attempt, adapter_pc, waited_time, polls, posted,
                 adapter_tasks>>

\* LumaBackend.cancel_task(task_id): no request is sent; the stored task,
\* which is the caller's task object, is marked cancelled
LumaCancel(task_id) ==
  /\ Len(cancel_returned) < MaxCancels
  /\ IF InTasks("luma", task_id)
       THEN /\ task' = [task EXCEPT ![task_id] = [@ EXCEPT !.status = CANCELLED]]
            /\ cancel_returned' = Append(cancel_returned,
                                         [task_id |-> task_id, returned |-> TRUE])
       ELSE /\ cancel_returned' = Append(cancel_returned,
                                         [task_id |-> task_id, returned |-> FALSE])
            /\ UNCHANGED task
  /\ UNCHANGED <<config_vars, batch_vars, health_status, backend_health,
                 backend_tasks, pc, submitted, frames, exclude_backends,
                 mon_vars, attempt, adapter_pc, waited_time, polls, posted,
                 adapter_tasks>>

LumaNext ==
  \/ \E t \in Tasks : GenerateStart(1, t)
  \/ \E outcome \in SubmitOutcomes : AdapterSubmit(1, outcome)
  \/ \E answer \in ProviderAnswers : AdapterPoll(1, answer)
  \/ AdapterSleepEnds(1)
  \/ AdapterRaises(1)
  \/ \E task_id \in TaskIds : LumaCancel(task_id)

\* the default configuration with every key set, the monitor having left
\* the health flags in any state
LumaInit ==
  /\ backend_capabilities = [b \in BackendNames |-> AdapterCapabilities(b)]
  /\ enabled = DefaultEnabled
  /\ max_concurrent_tasks = [b \in BackendNames |-> MaxCap]
  /\ api_key = AllKeys
  /\ backends = {b \in BackendNames : enabled[b]}
  /\ backend_health \in [backends -> BOOLEAN]
  /\ backend_tasks = [b \in backends |-> 0]
  /\ pc = [c \in Calls |-> "idle"]
  /\ task = [c \in Calls |-> NoTask]
  /\ submitted = [c \in Calls |-> NoTask]
  /\ frames = [c \in Calls |-> <<>>]
  /\ exclude_backends = [c \in Calls |-> <<>>]
  /\ mon_pc = RoundStart
  /\ mon_idx = 1
  /\ NoBatch
  /\ NoAdapterCall
  /\ NoSnapshot

LumaSpec == LumaInit /\ [][LumaNext]_vars

(* ------------------ the selector run more than once ------------------- *)
\* what svd and pika may declare: the same two resolutions in either order
DetChoices ==
  [supports_image_to_video : BOOLEAN,
   max_duration : {4},
   supported_resolutions : {<<"1024x576", "768x768">>, <<"768x768", "1024x576">>},
   supported_fps : {<<24>>}]

\* the tasks given to the selector
DetTasks ==
  {NewTask(r, 24, 3, i) : r \in {"1920x1080", "640x480"}, i \in {None, "image.png"}}

\* svd and pika declare capabilities of DetChoices, every backend is
\* constructed, and the health flags are any
DetInit ==
  /\ backend_capabilities \in
       {[b \in BackendNames |-> IF b = "svd" THEN k1
                                ELSE IF b = "pika" THEN k2
                                ELSE AdapterCapabilities(b)] :
          k1 \in DetChoices, k2 \in DetChoices}
  /\ enabled = [b \in BackendNames |-> TRUE]
  /\ max_concurrent_tasks = [b \in BackendNames |-> MaxCap]
  /\ api_key = AllKeys
  /\ backends = BackendNames
  /\ backend_health \in [backends -> BOOLEAN]
  /\ backend_tasks = [b \in backends |-> 0]
  /\ pc = [c \in Calls |-> "idle"]
  /\ task = [c \in Calls |-> NoTask]
  /\ submitted = [c \in Calls |-> NoTask]
  /\ frames = [c \in Calls |-> <<>>]
  /\ exclude_backends = [c \in Calls |-> <<>>]
  /\ mon_pc = RoundStart
  /\ mon_idx = 1
  /\ NoBatch
  /\ NoAdapterCall
  /\ NoSnapshot

\* mutant of SelectOnly: a later run prefers the backends in reverse order
SelectOnly_LaterRunsReversed(c, t) ==
  /\ pc[c] = "idle"
  /\ \A d \in Calls : d < c => pc[d] # "idle"
  /\ LET available == get_available_backends(backend_health, backend_tasks)
         reversed == [i \in 1..Len(available) |-> available[Len(available) + 1 - i]]
         sel == SelectLoop(IF c = 1 THEN available ELSE reversed, t)
     IN  /\ submitted' = [submitted EXCEPT ![c] = t]
         /\ task' = [task EXCEPT ![c] = sel.task]
         /\ frames' = [frames EXCEPT ![c] =
                         IF sel.backend = None THEN <<>> ELSE <<sel.backend>>]
         /\ pc' = [pc EXCEPT ![c] = "selected"]
  /\ UNCHANGED <<config_vars, batch_vars, adapter_vars, health_status,
                 backend_health, backend_tasks, exclude_backends, mon_vars>>

\* select_best_backend(task) called by itself: frames names the backend it
\* returned, task is the task as it left it; nothing is reserved
SelectOnly(c, t) ==
  /\ pc[c] = "idle"
  /\ \A d \in Calls : d < c => pc[d] # "idle"
  /\ LET sel == select_best_backend(backend_health, backend_tasks, t)
     IN  /\ submitted' = [submitted EXCEPT ![c] = t]
         /\ task' = [task EXCEPT ![c] = sel.task]
         /\ frames' = [frames EXCEPT ![c] =
                         IF sel.backend = None THEN <<>> ELSE <<sel.backend>>]
         /\ pc' = [pc EXCEPT ![c] = "selected"]
  /\ UNCHANGED <<config_vars, batch_vars, adapter_vars, health_status,
                 backend_health, backend_tasks, exclude_backends, mon_vars>>

DetNext == \E c \in Calls, t \in DetTasks : SelectOnly(c, t)

DetSpec == DetInit /\ [][DetNext]_vars

(* ------------------- validate_task called on a task ------------------ *)
\* pika declares any capabilities of CapChoices, the others are the adapters
\* of the program
ValidateInit ==
  /\ backend_capabilities \in
       {[b \in BackendNames |-> IF b = "pika" THEN k ELSE AdapterCapabilities(b)] :
          k \in CapChoices}
  /\ enabled = [b \in BackendNames |-> TRUE]
  /\ max_concurrent_tasks = [b \in BackendNames |-> MaxCap]
  /\ api_key = AllKeys
  /\ backends = BackendNames
  /\ backend_health = [b \in backends |-> TRUE]
  /\ backend_tasks = [b \in backends |-> 0]
  /\ pc = [c \in Calls |-> "idle"]
  /\ task = [c \in Calls |-> NoTask]
  /\ submitted = [c \in Calls |-> NoTask]
  /\ frames = [c \in Calls |-> <<>>]
  /\ exclude_backends = [c \in Calls |-> <<>>]
  /\ mon_pc = RoundStart
  /\ mon_idx = 1
  /\ NoBatch
  /\ NoAdapterCall
  /\ NoSnapshot

\* the adapter of b (named in frames) runs validate_task on t: it returns
\* ("accepted") or raises ValueError ("rejected"); it assigns to no field of
\* the task
ValidateTask(c, b, t) ==
  /\ pc[c] = "idle"
  /\ submitted' = [submitted EXCEPT ![c] = t]
  /\ frames' = [frames EXCEPT ![c] = <<b>>]
  /\ task' = [task EXCEPT ![c] = t]
  /\ pc' = [pc EXCEPT ![c] = IF validate_task(b, t) THEN "accepted" ELSE "rejected"]
  /\ UNCHANGED <<config_vars, batch_vars, adapter_vars, health_status,
                 backend_health, backend_tasks, exclude_backends, mon_vars>>

ValidateNext == \E b \in BackendNames, t \in CapTasks : ValidateTask(1, b, t)

ValidateSpec == ValidateInit /\ [][ValidateNext]_vars

(* ------- failover among backends one of which declares anything ------- *)
CapFailoverNext ==
  \/ \E t \in CapTasks : GenerateStart(1, t)
  \/ AdapterReturns(1)
  \/ AdapterRaises(1)

CapFailoverSpec == CapInit /\ [][CapFailoverNext]_vars

(* ------ the selector with the primary unhealthy or not, and a ---------- *)
(* ------ secondary that declares anything ------------------------------- *)
\* svd and pika are enabled, svd found healthy or not by the monitor, pika
\* declaring any capabilities of CapChoices
ScenInit ==
  /\ backend_capabilities \in
       {[b \in BackendNames |-> IF b = "pika" THEN k ELSE AdapterCapabilities(b)] :
          k \in CapChoices}
  /\ enabled \in {e \in [BackendNames -> BOOLEAN] : e["svd"] /\ e["pika"]}
  /\ max_concurrent_tasks = [b \in BackendNames |-> MaxCap]
  /\ api_key = AllKeys
  /\ backends = {b \in BackendNames : enabled[b]}
  /\ \E h \in BOOLEAN : backend_health = [b \in backends |-> b # "svd" \/ h]
  /\ backend_tasks = [b \in backends |-> 0]
  /\ pc = [c \in Calls |-> "idle"]
  /\ task = [c \in Calls |-> NoTask]
  /\ submitted = [c \in Calls |-> NoTask]
  /\ frames = [c \in Calls |-> <<>>]
  /\ exclude_backends = [c \in Calls |-> <<>>]
  /\ mon_pc = RoundStart
  /\ mon_idx = 1
  /\ NoBatch
  /\ NoAdapterCall
  /\ NoSnapshot

ScenNext ==
  \/ \E t \in CapTasks : GenerateStart(1, t)
  \/ AdapterReturns(1)

ScenSpec == ScenInit /\ [][ScenNext]_vars

(* ------------------------------ claims --------------------------------- *)
Last(q) == q[Len(q)]
Front(q) == SubSeq(q, 1, Len(q) - 1)
NoDuplicates(q) == \A i, j \in 1..Len(q) : q[i] = q[j] => i = j

\* number of reservations of backend b held by the frames of calls 1..n
RECURSIVE HeldUpTo(_, _)
HeldUpTo(b, n) ==
  IF n = 0 THEN 0
  ELSE Cardinality({i \in 1..Len(frames[n]) : frames[n][i] = b}) + HeldUpTo(b, n - 1)

Held(b) == HeldUpTo(b, NumCalls)

AllReturned == \A c \in Calls : pc[c] = "done"

\* C1: in every reachable state each backend's active task count is at
\* least 0 and at most its max_concurrent_tasks.
C1_ActiveTaskCountInBounds ==
  \A b \in DOMAIN backend_tasks :
    /\ 0 <= backend_tasks[b]
    /\ backend_tasks[b] <= max_concurrent_tasks[b]

\* C1 witness: a healthy primary backend is at a cap of MaxCap, two calls
\* holding it, or at a cap of 1 while a later call was sent on to pika.
C1_Witness ==
  /\ backend_tasks["svd"] = max_concurrent_tasks["svd"]
  /\ backend_health["svd"]
  /\ \/ max_concurrent_tasks["svd"] > 1
     \/ \E c \in Calls : pc[c] = "invoking" /\ frames[c] = <<"pika">>

\* C2: every reservation is matched by exactly one release of the same
\* backend: a backend's count is the number of frames that hold it, and once
\* every generate call has returned every count is 0.
C2_ReservationsReleased ==
  /\ \A b \in DOMAIN backend_tasks : backend_tasks[b] = Held(b)
  /\ AllReturned => \A b \in DOMAIN backend_tasks : backend_tasks[b] = 0

\* C2 witness: every call has returned, one of them after each adapter it
\* tried raised, and all counts are 0.
C2_Witness ==
  /\ AllReturned
  /\ \E c \in Calls : task[c].error_message = ERR_ALL_UNAVAILABLE
  /\ \E c \in Calls : task[c].status = COMPLETED
  /\ \A b \in DOMAIN backend_tasks : backend_tasks[b] = 0

\* C3: within one generate call the exclusion list is exactly the backends
\* tried before the current one, so it grows by one backend at each failover
\* step, and no backend's adapter is invoked twice for the task.
C3_ExclusionGrowsByOne ==
  \A c \in Calls :
    pc[c] = "invoking" =>
      /\ NoDuplicates(frames[c])
      /\ exclude_backends[c] = Front(frames[c])

\* C3 witness: a call is at its third backend.
C3_Witness ==
  \E c \in Calls : pc[c] = "invoking" /\ Len(frames[c]) = 3

\* C4: a generate call invokes at most N adapters for N registered backends
\* and then returns, even when every adapter call raises: the chain never
\* holds more than N backends, an awaited adapter call can always end, and
\* every way it ends either returns the call or moves it to one more backend.
C4_FailoverTerminates ==
  /\ [](\A c \in Calls :
          /\ Len(frames[c]) <= Cardinality(backends)
          /\ pc[c] = "invoking" =>
                ENABLED AdapterReturns(c) /\ ENABLED AdapterRaises(c))
  /\ [][\A c \in Calls :
          (pc[c] = "invoking" /\ <<pc[c], frames[c]>>' # <<pc[c], frames[c]>>)
            => \/ pc'[c] = "done"
               \/ pc'[c] = "invoking" /\ Len(frames'[c]) = Len(frames[c]) + 1]_vars

\* C4 witness: a call has returned after every registered backend's adapter
\* raised for it (the failed task still carries no backend_used).
C4_Witness ==
  \E c \in Calls :
    /\ pc[c] = "done"
    /\ task[c].error_message = ERR_ALL_UNAVAILABLE
    /\ task[c].backend_used = None
    /\ Cardinality(backends) = 3
    /\ \A b \in backends : ~backend_health[b] \/ backend_tasks[b] = 0

\* C5 (the claim as stated): whenever a backend's adapter call raises, on the
\* first attempt or on a failover re-attempt, and another backend is tried,
\* the failed backend's healthy flag is false after that step.
C5_FailedBackendMarkedUnhealthy ==
  [][\A c \in Calls :
       (pc[c] = "invoking" /\ Len(frames'[c]) = Len(frames[c]) + 1)
         => ~backend_health'[Last(frames[c])]]_vars

\* C6 (the claim as stated): while the next backend of a chain is selected
\* and invoked, the failed backend's count no longer includes the task: a
\* count is the number of calls whose current backend it is.
C6_ReleasedBeforeReselect ==
  \A b \in DOMAIN backend_tasks :
    backend_tasks[b] =
      Cardinality({c \in Calls : pc[c] = "invoking" /\ Last(frames[c]) = b})

\* the capability matcher's verdict on a task as it stands
MeetsCapabilities(b, t) ==
  LET capabilities == get_capabilities(b)
  IN  /\ HasInputImage(t) => capabilities.supports_image_to_video
      /\ InSeq(t.resolution, capabilities.supported_resolutions)
      /\ InSeq(t.fps, capabilities.supported_fps)

\* C7 (the claim as stated): the backend used on a failover re-attempt has
\* passed the capability matcher for the task.
C7_FailoverBackendCompatible ==
  \A c \in Calls :
    (pc[c] = "invoking" /\ Len(frames[c]) > 1)
      => MeetsCapabilities(Last(frames[c]), task[c])

\* the available backends a call's selector saw: the registered ones in
\* priority order that were enabled, healthy and below their cap before the
\* call reserved its own
SeenAvailable ==
  get_available_backends(backend_health,
                         [b \in DOMAIN backend_tasks |-> backend_tasks[b] - Held(b)])

Selected(c) == frames[c][1]

\* C8: when the selector returns a backend, the task as it leaves the
\* selector satisfies the backend's declared capabilities: resolution and fps
\* supported, duration within the maximum, image-to-video if it has an image.
C8_SelectedBackendFitsTask ==
  \A c \in Calls :
    (pc[c] = "invoking" /\ Len(frames[c]) = 1) =>
      LET capabilities == backend_capabilities[Selected(c)]
      IN  /\ InSeq(task[c].resolution, capabilities.supported_resolutions)
          /\ InSeq(task[c].fps, capabilities.supported_fps)
          /\ task[c].duration <= capabilities.max_duration
          /\ HasInputImage(task[c]) => capabilities.supports_image_to_video

\* C8 witness: a task with an input image is dispatched with resolution and
\* fps both adapted, after the selector skipped an earlier backend.
C8_Witness ==
  /\ pc[1] = "invoking"
  /\ HasInputImage(task[1])
  /\ task[1].resolution # submitted[1].resolution
  /\ task[1].fps # submitted[1].fps
  /\ Selected(1) # Head(SeenAvailable)

\* image and resolution leave the backend usable for the task
CompatibleButForDuration(b, t) ==
  LET capabilities == backend_capabilities[b]
  IN  /\ HasInputImage(t) => capabilities.supports_image_to_video
      /\ capabilities.supported_resolutions # <<>>

Min(x, y) == IF x < y THEN x ELSE y

\* C9 (the claim as stated): a duration above max_duration alone never
\* rejects a backend: the task goes to the first available backend that is
\* compatible in every other respect, its duration clamped to max_duration.
C9_DurationClampedNotRejected ==
  \A c \in Calls :
    pc[c] # "idle" =>
      LET fit == SelectSeq(SeenAvailable,
                           LAMBDA b : CompatibleButForDuration(b, submitted[c]))
      IN  fit # <<>> =>
            /\ pc[c] = "invoking"
            /\ Selected(c) = Head(fit)
            /\ task[c].duration =
                  Min(submitted[c].duration,
                      backend_capabilities[Head(fit)].max_duration)

\* the first candidate of the equivalence table of resolution r that is in
\* the list, None if there is none
FirstTableCandidateIn(r, supported) ==
  LET candidates == Candidates(r)
      hits == {i \in 1..Len(candidates) : InSeq(candidates[i], supported)}
  IN  IF hits = {} THEN None
      ELSE candidates[CHOOSE i \in hits : \A j \in hits : i <= j]

\* C10 (the claim as stated): a resolution that is not supported is replaced
\* by the first supported candidate of the table; with no supported candidate
\* the backend is incompatible and is not selected.
C10_NoCandidateMeansIncompatible ==
  \A c \in Calls :
    (pc[c] = "invoking" /\ Len(frames[c]) = 1) =>
      LET supported == backend_capabilities[Selected(c)].supported_resolutions
          r == submitted[c].resolution
      IN  \/ InSeq(r, supported) /\ task[c].resolution = r
          \/ /\ ~InSeq(r, supported)
             /\ FirstTableCandidateIn(r, supported) # None
             /\ task[c].resolution = FirstTableCandidateIn(r, supported)

\* image, duration and a non-empty resolution list: what the selector asks
\* of a backend
PassesSelector(b, t) ==
  LET capabilities == backend_capabilities[b]
  IN  /\ HasInputImage(t) => capabilities.supports_image_to_video
      /\ t.duration <= capabilities.max_duration
      /\ capabilities.supported_resolutions # <<>>

\* C10 (amended): a resolution that is not supported is replaced by the first
\* supported candidate of the table and, when no candidate is supported, by
\* the first entry of supported_resolutions; a backend is passed over for
\* its resolutions only when it declares none, and a task for which no
\* backend is selected keeps its resolution.
C10_FirstCandidateElseFirstSupported ==
  \A c \in Calls :
    /\ (pc[c] = "invoking" /\ Len(frames[c]) = 1) =>
         LET supported == backend_capabilities[Selected(c)].supported_resolutions
             r == submitted[c].resolution
             fit == SelectSeq(SeenAvailable,
                              LAMBDA b : PassesSelector(b, submitted[c]))
         IN  /\ fit # <<>> /\ Selected(c) = Head(fit)
             /\ task[c].resolution =
                   IF InSeq(r, supported) THEN r
                   ELSE IF FirstTableCandidateIn(r, supported) # None
                     THEN FirstTableCandidateIn(r, supported)
                   ELSE supported[1]
    /\ (pc[c] = "done" /\ task[c].error_message = ERR_NO_BACKEND) =>
         /\ task[c].resolution = submitted[c].resolution
         /\ \A b \in SeqToSet(SeenAvailable) : ~PassesSelector(b, submitted[c])

\* C10 witness: the selected backend supports neither the resolution asked
\* for nor any candidate of its table row, and the task carries the first
\* entry of the backend's list.
C10_Witness ==
  /\ pc[1] = "invoking"
  /\ LET supported == backend_capabilities[Selected(1)].supported_resolutions
     IN  /\ ~InSeq(submitted[1].resolution, supported)
         /\ submitted[1].resolution \in DOMAIN resolution_map
         /\ FirstTableCandidateIn(submitted[1].resolution, supported) = None
         /\ Len(supported) > 1
         /\ task[1].resolution = supported[1]

\* the distance of a supported fps value from the fps asked for
FpsDistance(c, x) == Abs(x - submitted[c].fps)

\* the supported fps values nearest to the fps call c asked for
NearestFps(c) ==
  LET supported == SeqToSet(backend_capabilities[Selected(c)].supported_fps)
  IN  {x \in supported : \A y \in supported : FpsDistance(c, x) <= FpsDistance(c, y)}

\* the selector took the first available backend whose image support,
\* maximum duration and resolution list let it through, whatever its fps list
FpsNeverRejects(c) ==
  LET fit == SelectSeq(SeenAvailable, LAMBDA b : PassesSelector(b, submitted[c]))
  IN  fit # <<>> /\ Selected(c) = Head(fit)

C13_InvokedOnlyIfEligible ==
  [][\A c \in Calls :
       Len(frames'[c]) = Len(frames[c]) + 1 =>
         LET b == Last(frames'[c])
         IN  /\ enabled[b]
             /\ b \in backends
             /\ Get(backend_health, b, FALSE)
             /\ Get(backend_tasks, b, 0) < max_concurrent_tasks[b]]_vars

\* C13 witness: the only call made so far went to pika, the healthy
\* secondary, because the monitor had found the primary unhealthy.
C13_Witness ==
  \E c \in Calls :
    /\ pc[c] = "invoking"
    /\ frames[c] = <<"pika">>
    /\ ~backend_health["svd"]
    /\ \A d \in Calls \ {c} : pc[d] = "idle"

\* position of a backend in the registration order
Registered(b) == CHOOSE i \in 1..Len(backend_configs) : backend_configs[i] = b

\* priority tier ascending, registration order within a tier
Precedes(a, b) ==
  \/ priority[a] < priority[b]
  \/ priority[a] = priority[b] /\ Registered(a) < Registered(b)

\* the backend was enabled, constructed, healthy and below its cap, the
\* reservations held now left out
EligibleBefore(b) ==
  /\ enabled[b]
  /\ b \in backends
  /\ Get(backend_health, b, FALSE)
  /\ backend_tasks[b] - Held(b) < max_concurrent_tasks[b]

\* the resolution the matcher leaves on a task of resolution r for a backend
CommittedResolution(b, r) ==
  LET supported == backend_capabilities[b].supported_resolutions
  IN  IF InSeq(r, supported) THEN r
      ELSE IF FirstTableCandidateIn(r, supported) # None
        THEN FirstTableCandidateIn(r, supported)
      ELSE supported[1]

\* C14: the selector returns the first backend, by priority tier and then
\* registration order, among the eligible ones that the matcher lets
\* through, and the task carries the adapted fields; with the primary
\* unhealthy and a healthy secondary that supports only 1024x576, a task of
\* resolution 1920x1080 and duration 3 goes to the secondary with resolution
\* 1024x576.
C14_FirstCompatibleInOrder ==
  \A c \in Calls :
    pc[c] # "idle" =>
      LET t == submitted[c]
          fit == {b \in BackendNames : EligibleBefore(b) /\ PassesSelector(b, t)}
          first == CHOOSE x \in fit : \A y \in fit \ {x} : Precedes(x, y)
      IN  /\ fit = {} =>
               /\ pc[c] = "done"
               /\ task[c].backend_used = None
               /\ task[c].error_message = ERR_NO_BACKEND
          /\ fit # {} =>
               /\ pc[c] = "invoking" => frames[c] = <<first>>
               /\ pc[c] = "done" => task[c].backend_used = first
               /\ task[c].resolution = CommittedResolution(first, t.resolution)
               /\ InSeq(task[c].fps, backend_capabilities[first].supported_fps)
               /\ InSeq(t.fps, backend_capabilities[first].supported_fps)
                    => task[c].fps = t.fps
               /\ pc[c] = "invoking" => task[c].duration = t.duration
               /\ task[c].input_image = t.input_image
          /\ ( /\ ~backend_health["svd"]
               /\ backend_capabilities["pika"].supported_resolutions = <<"1024x576">>
               /\ t.resolution = "1920x1080" /\ t.duration = 3
               /\ ~HasInputImage(t) )
             => /\ task[c].resolution = "1024x576"
                /\ pc[c] = "invoking" => frames[c] = <<"pika">>
                /\ pc[c] = "done" => task[c].backend_used = "pika"

\* C14 witness: scenario A, the call returned completed by pika.
C14_Witness ==
  /\ ~backend_health["svd"]
  /\ backend_capabilities["pika"].supported_resolutions = <<"1024x576">>
  /\ submitted[1].resolution = "1920x1080"
  /\ submitted[1].duration = 3
  /\ pc[1] = "done"
  /\ task[1].status = COMPLETED
  /\ task[1].backend_used = "pika"
  /\ task[1].resolution = "1024x576"

\* the backends that are eligible now
Eligible(b) ==
  /\ enabled[b]
  /\ b \in backends
  /\ Get(backend_health, b, FALSE)
  /\ Get(backend_tasks, b, 0) < max_concurrent_tasks[b]

\* the eligible backends call c has not tried
Remaining(c) == {b \in BackendNames \ SeqToSet(frames[c]) : Eligible(b)}

\* the call returned the task failed for want of a backend, and holds none
ReturnsNoBackend(c, message) ==
  /\ pc'[c] = "done"
  /\ task'[c].status = FAILED
  /\ task'[c].error_message = message
  /\ task'[c].backend_used = None
  /\ frames'[c] = <<>>

\* C15: whenever no backend is eligible when a call selects, or none that
\* the call has not tried is eligible when an adapter raised, the call returns
\* the task failed with a no-backend message, invoking no further adapter
\* and reserving nothing.
C15_NoBackendReturnsFailed ==
  [][\A c \in Calls :
       /\ (pc[c] = "idle" /\ pc'[c] # "idle" /\ \A b \in BackendNames : ~Eligible(b))
            => /\ ReturnsNoBackend(c, ERR_NO_BACKEND)
               /\ backend_tasks' = backend_tasks
       /\ (AdapterRaises(c) /\ Remaining(c) = {})
            => /\ ReturnsNoBackend(c, ERR_ALL_UNAVAILABLE)
               /\ \A b \in DOMAIN backend_tasks : backend_tasks'[b] <= backend_tasks[b]]_vars

\* C15 witness: a call found the primary at its cap and the other backends
\* unhealthy, and returned failed while the first call still holds svd.
C15_Witness ==
  \E c, d \in Calls :
    /\ pc[d] = "invoking"
    /\ frames[d] = <<"svd">>
    /\ backend_health["svd"]
    /\ backend_tasks["svd"] = max_concurrent_tasks["svd"]
    /\ pc[c] = "done"
    /\ task[c].status = FAILED
    /\ task[c].error_message = ERR_NO_BACKEND

\* the adapter call of the backend a call selected ended with the adapter's
\* own report of a failed submit
SubmitFailed(c) ==
  /\ pc[c] = "invoking"
  /\ Len(frames[c]) = 1
  /\ pc'[c] = "done"
  /\ task'[c].error_message = ERR_REMOTE

\* C16 (the claim as stated): if the submit of the selected backend fails
\* with a transport error then, within the same call, the backend's healthy
\* flag becomes false and the next eligible backend is tried.
C16_TransportErrorFailsOver ==
  [][\A c \in Calls :
       SubmitFailed(c)
         => /\ ~backend_health'[Selected(c)]
            /\ Remaining(c) # {} =>
                 /\ pc'[c] = "invoking"
                 /\ Len(frames'[c]) = 2
                 /\ Last(frames'[c]) \in Remaining(c)]_vars

\* C17: when the provider reports the job failed to the adapter's polling,
\* the call returns the task failed with backend_used naming that backend;
\* no other backend is tried and no healthy flag changes.
C17_ProviderFailureNoFailover ==
  [][\A c \in Calls :
       (pc[c] = "invoking" /\ task'[c].error_message = ERR_PROVIDER)
         => /\ pc'[c] = "done"
            /\ task'[c].status = FAILED
            /\ task'[c].backend_used = Last(frames[c])
            /\ frames'[c] = <<>>
            /\ backend_health' = backend_health]_vars

\* C17 witness: the call returned failed by the provider of svd, and svd is
\* healthy still, as is pika, which was not tried.
C17_Witness ==
  /\ pc[1] = "done"
  /\ task[1].status = FAILED
  /\ task[1].error_message = ERR_PROVIDER
  /\ task[1].backend_used = "svd"
  /\ backend_health["svd"]
  /\ backend_health["pika"]

\* the backend whose health_check the monitor awaits
Checked == backends_items[mon_idx]

NoCallMade == \A c \in Calls : pc[c] = "idle"

\* C18: a round of the monitor starts at the first registered adapter and
\* checks them all in turn, and each check sets the backend's healthy flag
\* to its result: true if it reported healthy, false if it reported
\* unhealthy or raised, whether or not a request is in flight.
C18_MonitorSetsFlagFromResult ==
  /\ [](mon_pc = "checking" =>
          /\ mon_idx \in 1..Len(backends_items)
          /\ \A result \in HealthResults : ENABLED MonitorCheck(result))
  /\ [][/\ \A result \in HealthResults :
             MonitorCheck(result) => backend_health'[Checked] = (result = "healthy")
        /\ (mon_pc = "checking" /\ <<mon_pc, mon_idx>>' # <<mon_pc, mon_idx>>) =>
             IF mon_idx < Len(backends_items)
               THEN mon_pc' = "checking" /\ mon_idx' = mon_idx + 1
               ELSE mon_pc' = "sleeping"
        /\ (mon_pc = "sleeping" /\ mon_pc' # "sleeping") =>
             mon_pc' = "checking" /\ mon_idx' = 1]_vars

\* C18 witness: no call has been made, svd was healthy at the start and the
\* check just made found it unhealthy.
C18_Witness ==
  /\ NoCallMade
  /\ mon_pc = "checking"
  /\ mon_idx = 2
  /\ ~backend_health["svd"]
  /\ backend_health["pika"]

\* C19: no step of the monitor, whatever the result of a check and whatever
\* calls are in flight, changes a backend's count.
C19_MonitorLeavesCounts ==
  [][((\E result \in HealthResults : MonitorCheck(result)) \/ MonitorWake)
       => backend_tasks' = backend_tasks]_vars

\* C19 witness: a round has ended with svd found unhealthy while a call
\* holds svd, whose count is still 1.
C19_Witness ==
  /\ mon_pc = "sleeping"
  /\ ~backend_health["svd"]
  /\ backend_tasks["svd"] = 1
  /\ \E c \in Calls : pc[c] = "invoking" /\ frames[c] = <<"svd">>

\* C20: a check that raises or reports unhealthy changes no other backend's
\* flag and does not end the round: the next registered adapter is checked
\* next, and after the last one the loop sleeps and starts another round.
C20_FailedCheckAffectsOnlyItsBackend ==
  /\ [](mon_pc = "sleeping" => ENABLED MonitorWake)
  /\ [][\A result \in {"unhealthy", "raises"} :
          MonitorCheck(result) =>
            /\ \A b \in DOMAIN backend_health \ {Checked} :
                 backend_health'[b] = backend_health[b]
            /\ DOMAIN backend_health' = DOMAIN backend_health
            /\ mon_idx < Len(backends_items) =>
                 /\ mon_pc' = "checking"
                 /\ backends_items[mon_idx'] = backends_items[mon_idx + 1]
            /\ mon_idx = Len(backends_items) => mon_pc' = "sleeping"]_vars

\* C20 witness: a later round has begun after a round in which the check of
\* svd failed and pika, checked after it, stayed healthy.
C20_Witness ==
  /\ NoCallMade
  /\ mon_pc = "checking"
  /\ mon_idx = 1
  /\ ~backend_health["svd"]
  /\ backend_health["pika"]

\* C21: once cleanup has returned the loop is over: no health_check is
\* awaited, the sleep does not end into a new round, the position of the loop
\* stays, and a healthy flag changes only by a generation call whose adapter
\* raised.
C21_NoMonitorActivityAfterCleanup ==
  /\ [](mon_pc = "cancelled" =>
          /\ \A result \in HealthResults : ~ENABLED MonitorCheck(result)
          /\ ~ENABLED MonitorWake)
  /\ [][mon_pc = "cancelled" =>
          /\ mon_vars' = mon_vars
          /\ backend_health' # backend_health => \E c \in Calls : AdapterRaises(c)]_vars

\* C21 witness: cleanup has returned after cancelling the loop while it
\* awaited the health_check of its second backend, svd found unhealthy
\* before.
C21_Witness ==
  /\ mon_pc = "cancelled"
  /\ mon_idx = 2
  /\ NoCallMade
  /\ ~backend_health["svd"]

\* generate_videos has returned its list
BatchReturned == results # <<>>

\* C22: the list generate_videos returns has one entry for each scene, and
\* the entry at position i reports what the generation of the task built
\* from scene i ended with, whatever the order the generations ended in.
C22_ResultsFollowInputOrder ==
  BatchReturned =>
    /\ Len(results) = Len(scenes)
    /\ \A i \in Scenes :
         /\ submitted[i] = SceneTask(scenes[i])
         /\ results[i].scene_index = i - 1
         /\ IF pc[i] = "raised"
              THEN ~results[i].success /\ results[i].error = ERR_TYPE
              ELSE /\ pc[i] = "done"
                   /\ results[i].success = (task[i].status = COMPLETED)
                   /\ results[i].success \/ results[i].error = task[i].error_message
                   /\ results[i].duration = task[i].duration
                   /\ results[i].resolution = task[i].resolution

\* C22 witness: a batch has returned whose two first scenes differ, the
\* first failed at its provider and the second completed.
C22_Witness ==
  /\ BatchReturned
  /\ scenes[1].duration = 2
  /\ scenes[2].duration = 1
  /\ results[1].error = ERR_PROVIDER
  /\ results[2].success

\* the scenes whose generate_single holds the semaphore: they are in
\* generate_video, about to enter it or just out of it
InsideDispatcher == {i \in Scenes : scene_pc[i] = "acquired"}

\* C23: at no time do more scenes hold the semaphore, and so run
\* generate_video, than max_concurrent.
C23_GlobalLimitHolds ==
  /\ Cardinality(InsideDispatcher) <= max_concurrent
  /\ Cardinality({i \in Scenes : pc[i] = "invoking"}) <= max_concurrent
  /\ semaphore = max_concurrent - Cardinality(InsideDispatcher)

\* C23 witness: the limit is 1 and a scene waits for the one in
\* generate_video although a backend is available to it.
C23_Witness ==
  /\ max_concurrent = 1
  /\ pc[1] = "invoking"
  /\ scene_pc[2] = "waiting"
  /\ scenes[2].duration # NoNumber
  /\ get_available_backends(backend_health, backend_tasks) # <<>>

\* C24: when generate_video raised for a scene the batch goes on: while the
\* list is not returned a step remains to take, and the list returned has, at
\* the scene's position, an entry with success false and the text of the
\* exception, and an entry for every other scene, each of them processed.
C24_SceneExceptionIsAnEntry ==
  /\ ((\E i \in Scenes : pc[i] = "raised") /\ ~BatchReturned) => ENABLED BatchNext
  /\ BatchReturned =>
       \A i \in Scenes :
         pc[i] = "raised" =>
           /\ i \in DOMAIN results
           /\ results[i].scene_index = i - 1
           /\ ~results[i].success
           /\ results[i].error = ERR_TYPE
           /\ \A j \in Scenes \ {i} :
                /\ pc[j] \in {"done", "raised"}
                /\ j \in DOMAIN results
                /\ results[j].scene_index = j - 1

\* C24 witness: the first scene raised and the second, entered after it,
\* completed and is reported so.
C24_Witness ==
  /\ BatchReturned
  /\ pc[1] = "raised"
  /\ pc[2] = "done"
  /\ task[2].status = COMPLETED
  /\ results[2].success

\* the backends the last snapshot reports not healthy
ReportedUnhealthy == {b \in backends : health_status.backends[b] # "healthy"}

\* C25: a snapshot says unhealthy exactly when every constructed backend
\* answered unhealthy or raised (so also when there is none), degraded
\* exactly when some but not all did, and healthy in every other case.
C25_OverallStatusSummarises ==
  ~NoSnapshot =>
    LET all == ReportedUnhealthy = backends
        some == ReportedUnhealthy # {} /\ ~all
    IN  /\ DOMAIN health_status.backends = backends
        /\ health_status.overall_status = "unhealthy" <=> all
        /\ health_status.overall_status = "degraded" <=> some
        /\ health_status.overall_status = "healthy" <=> (~all /\ ~some)

\* C25 witness: of three backends one answered unhealthy and the snapshot
\* says degraded.
C25_Witness ==
  /\ ~NoSnapshot
  /\ Cardinality(backends) = 3
  /\ Cardinality(ReportedUnhealthy) = 1
  /\ health_status.overall_status = "degraded"

\* max_wait_time / check_interval: the turns a wait loop has
PollLimit(b) == WaitLimits(b).max_wait_time \div WaitLimits(b).check_interval

\* C26: a wait loop never polls more often than max_wait_time /
\* check_interval; the sleep that uses up max_wait_time ends the call with
\* the task failed by a timeout, and a call that has returned polls no more.
C26_WaitLoopBounded ==
  /\ [](\A c \in Calls :
          Waiting(c) =>
            /\ polls[c] <= PollLimit(Current(c))
            /\ waited_time[c] < WaitLimits(Current(c)).max_wait_time
            /\ waited_time[c] =
                 WaitLimits(Current(c)).check_interval
                   * (IF adapter_pc[c] = "polling" THEN polls[c] ELSE polls[c] - 1))
  /\ [](\A c \in Calls :
          pc[c] = "done" => \A answer \in ProviderAnswers : ~ENABLED AdapterPoll(c, answer))
  /\ [][\A c \in Calls :
          /\ (Waiting(c) /\ waited_time'[c] >= WaitLimits(Current(c)).max_wait_time) =>
               /\ pc'[c] = "done"
               /\ task'[c].status = FAILED
               /\ task'[c].error_message = ERR_TIMEOUT
          /\ pc[c] = "done" => polls'[c] = polls[c]]_vars

\* C26 witness: the wait loop of svd has used all its turns and the call has
\* returned the task failed by the timeout.
C26_Witness ==
  /\ pc[1] = "done"
  /\ task[1].backend_used = "svd"
  /\ task[1].error_message = ERR_TIMEOUT
  /\ polls[1] = PollLimit("svd")

Terminal == {COMPLETED, FAILED, CANCELLED}

\* C27: while a call stays with one backend the status of its task is never
\* moved from processing back to pending, and a completed, failed or
\* cancelled task keeps its status.
C27_StatusMovesForward ==
  [][\A c \in Calls :
       Len(frames'[c]) <= Len(frames[c]) =>
         /\ task[c].status = PROCESSING => task'[c].status # PENDING
         /\ task[c].status \in Terminal => task'[c].status = task[c].status]_vars

\* C28: the adapter of a failover backend is given the task pending.
C28_FailoverStartsPending ==
  \A c \in Calls :
    (Starting(c) /\ Len(frames[c]) > 1) => task[c].status = PENDING

\* C29: whenever generate_video returns, the task it returns is completed,
\* failed or cancelled.
C29_ReturnsTerminalStatus ==
  [][\A c \in Calls :
       (pc[c] # "done" /\ pc'[c] = "done") => task'[c].status \in Terminal]_vars

\* C29 witness: the call has returned failed for want of a backend after
\* the adapters it tried had polled and raised.
C29_Witness ==
  /\ pc[1] = "done"
  /\ task[1].status = FAILED
  /\ task[1].error_message = ERR_ALL_UNAVAILABLE
  /\ polls[1] > 0

\* C30: validate_task raises exactly when the resolution is not among the
\* supported ones, or the frame rate is not, or the duration is above the
\* maximum, and the task is afterwards as it was given.
C30_ValidateChecksBounds ==
  \A c \in Calls :
    pc[c] \in {"accepted", "rejected"} =>
      LET capabilities == backend_capabilities[frames[c][1]]
          t == submitted[c]
      IN  /\ pc[c] = "rejected" <=>
               \/ t.resolution \notin SeqToSet(capabilities.supported_resolutions)
               \/ t.fps \notin SeqToSet(capabilities.supported_fps)
               \/ t.duration > capabilities.max_duration
          /\ task[c] = t

\* C30 witness: a task is rejected for its frame rate alone.
C30_Witness ==
  /\ pc[1] = "rejected"
  /\ LET capabilities == backend_capabilities[frames[1][1]]
     IN  /\ task[1].resolution \in SeqToSet(capabilities.supported_resolutions)
         /\ task[1].duration <= capabilities.max_duration
         /\ task[1].fps \notin SeqToSet(capabilities.supported_fps)

\* C31: a task is POSTed only by an adapter that has its key and whose
\* validate_task accepts it; an adapter without its key, or whose
\* validate_task rejects the task, sends nothing and returns the task
\* failed; and a health check of an adapter without its key leaves the
\* backend unhealthy.
C31_SubmitOnlyAfterChecks ==
  /\ [](\A c \in Calls : \A b \in posted[c] :
          HasCredentials(b) /\ validate_task(b, task[c]))
  /\ [][\A c \in Calls : \A outcome \in SubmitOutcomes :
          (/\ AdapterSubmit(c, outcome)
           /\ ~HasCredentials(Current(c)) \/ ~validate_task(Current(c), task[c])) =>
             /\ posted' = posted
             /\ pc'[c] = "done"
             /\ task'[c].status = FAILED]_vars
  /\ [][\A result \in HealthResults :
          (MonitorCheck(result) /\ ~HasCredentials(Checked)) =>
             ~backend_health'[Checked]]_vars

\* C31 witness: pika has no usable key; a call that reached it has returned
\* failed with nothing posted to pika, and the monitor has since found pika
\* unhealthy.
C31_Witness ==
  /\ ~HasCredentials("pika")
  /\ pc[1] = "done"
  /\ task[1].backend_used = "pika"
  /\ task[1].status = FAILED
  /\ "pika" \notin posted[1]
  /\ ~backend_health["pika"]

\* a step of the health check loop
MonitorStep == (\E result \in HealthResults : MonitorCheck(result)) \/ MonitorWake

\* a step of generate_video or of _failover_generate
DispatcherStep ==
  \E c \in Calls :
    \/ \E t \in Tasks : GenerateStart(c, t)
    \/ AdapterReturns(c)
    \/ AdapterRaises(c)

\* C32: a healthy flag changes only in a step of the health check loop, and
\* a count only in a step of the dispatcher.
C32_OneWriterPerField ==
  [][/\ backend_health' # backend_health => MonitorStep
     /\ backend_tasks' # backend_tasks => DispatcherStep]_vars

\* two runs of the selector that both returned a backend
BothSelected(c, d) ==
  /\ pc[c] = "selected" /\ frames[c] # <<>>
  /\ pc[d] = "selected" /\ frames[d] # <<>>

\* the supported_resolutions of the backend the run of c returned
SupportedBy(c) == backend_capabilities[frames[c][1]].supported_resolutions

\* runs on equal tasks, in one configuration and one snapshot of the flags
\* and counts, agree on the backend and on the task's resolution and fps
SameTaskSameSelection ==
  \A c, d \in Calls :
    (pc[c] = "selected" /\ pc[d] = "selected" /\ submitted[c] = submitted[d]) =>
      /\ frames[c] = frames[d]
      /\ task[c].resolution = task[d].resolution
      /\ task[c].fps = task[d].fps

LastCancel == cancel_returned[Len(cancel_returned)]

\* nothing but the status of the task with this id changes
OnlyStatusOf(task_id) ==
  /\ task' = [task EXCEPT ![task_id] = [@ EXCEPT !.status = CANCELLED]]
  /\ posted' = posted
  /\ adapter_tasks' = adapter_tasks
  /\ backend_tasks' = backend_tasks
  /\ backend_health' = backend_health
  /\ pc' = pc

\* C34: cancel_task of the luma adapter sends nothing: called with the id of
\* a task it has stored it returns true and marks that task cancelled,
\* called with any other id it returns false and changes no task.
C34_LumaCancelIsLocal ==
  [][\A task_id \in TaskIds :
       LumaCancel(task_id) =>
         IF task_id \in Calls /\ "luma" \in posted[task_id]
              /\ "luma" \in adapter_tasks[task_id]
           THEN LastCancel'.returned /\ OnlyStatusOf(task_id)
           ELSE /\ ~LastCancel'.returned
                /\ UNCHANGED <<task, posted, adapter_tasks, backend_tasks,
                               backend_health, pc>>]_vars

\* C34 witness: cancel_task was called with the id of a task luma had stored
\* and with an unknown id; the first returned true and the task is
\* cancelled, the second returned false.
C34_Witness ==
  /\ Len(cancel_returned) = 2
  /\ cancel_returned[1] = [task_id |-> 1, returned |-> TRUE]
  /\ cancel_returned[2] = [task_id |-> 0, returned |-> FALSE]
  /\ "luma" \in adapter_tasks[1]
  /\ task[1].status = CANCELLED

\* this step hands the task of call c to backend b: generate_video selects
\* it or _failover_generate takes it as the next backend
Selects(c, b) ==
  /\ Len(frames'[c]) = Len(frames[c]) + 1
  /\ frames'[c][Len(frames'[c])] = b

\* C35: a backend whose flag the dispatcher has cleared is handed no task,
\* by the failover of the same call or by any other call, while the flag is
\* clear, and only a health check of the monitor that finds the backend
\* healthy sets the flag again.
C35_UnhealthyNotSelectedUntilMonitor ==
  [][\A b \in backends :
       /\ ~backend_health'[b] => \A c \in Calls : ~Selects(c, b)
       /\ (~backend_health[b] /\ backend_health'[b]) =>
            (Checked = b /\ MonitorCheck("healthy"))]_vars

\* C35 witness: the adapter call of call 1 raised on svd, svd is marked
\* unhealthy, and both the failover of call 1 and call 2 went to another
\* backend.
C35_Witness ==
  /\ ~backend_health["svd"]
  /\ Len(frames[1]) = 2 /\ frames[1][1] = "svd" /\ frames[1][2] # "svd"
  /\ exclude_backends[1] = <<"svd">>
  /\ backend_tasks["svd"] = 1
  /\ pc[2] = "invoking" /\ frames[2] # <<>> /\ frames[2][1] # "svd"

\* the resolution and the frame rate backend b alone gives the task t
AdaptedBy(b, t) ==
  LET capabilities == get_capabilities(b)
  IN  [resolution |->
         IF InSeq(t.resolution, capabilities.supported_resolutions)
           THEN t.resolution
           ELSE find_compatible_resolution(t.resolution,
                                           capabilities.supported_resolutions),
       fps |->
         IF InSeq(t.fps, capabilities.supported_fps)
           THEN t.fps
           ELSE nearest_fps(capabilities.supported_fps, t.fps)]

\* the selector returned no backend to call c
NoneSelected(c) ==
  pc[c] = "done" /\ task[c].error_message = ERR_NO_BACKEND

\* C36: a task for which the selector found no backend has the resolution
\* and fps it was submitted with, and a task given to a backend has the
\* resolution and fps that backend alone makes of the submitted ones: the
\* candidates skipped before it have written nothing.
C36_SkippedCandidatesWriteNothing ==
  \A c \in Calls :
    /\ NoneSelected(c) =>
         /\ task[c].resolution = submitted[c].resolution
         /\ task[c].fps = submitted[c].fps
    /\ (pc[c] = "invoking" /\ Len(frames[c]) = 1) =>
         /\ task[c].resolution = AdaptedBy(frames[c][1], submitted[c]).resolution
         /\ task[c].fps = AdaptedBy(frames[c][1], submitted[c]).fps

\* C36 witness: the selector skipped an available backend that supports
\* neither the submitted resolution nor the submitted fps and selected a
\* later one that supports both; the task is as submitted.
C36_Witness ==
  /\ pc[1] = "invoking" /\ Len(frames[1]) = 1
  /\ task[1].resolution = submitted[1].resolution
  /\ task[1].fps = submitted[1].fps
  /\ \E a \in backends :
       /\ a # frames[1][1]
       /\ IsAvailable(backend_health, [b \in backends |-> 0], a)
       /\ \E i, j \in 1..Len(sorted_backends) :
            i < j /\ sorted_backends[i] = a /\ sorted_backends[j] = frames[1][1]
       /\ AdaptedBy(a, submitted[1]).resolution \notin {None, submitted[1].resolution}
       /\ AdaptedBy(a, submitted[1]).fps # submitted[1].fps

\* C37: a backend's healthy flag is true only if its adapter was constructed,
\* and no task is ever handed to a backend whose adapter was not: a backend
\* whose constructor raised stays unhealthy and unselected.
C37_HealthyOnlyIfConstructed ==
  /\ \A b \in DOMAIN backend_health : backend_health[b] => b \in backends
  /\ \A c \in Calls : \A i \in 1..Len(frames[c]) : frames[c][i] \in backends

\* C37 witness: the constructor of luma raised; the monitor has finished a
\* round and is in the next one, one call has returned and another is on its
\* second backend, and luma is unhealthy still.
C37_Witness ==
  /\ "luma" \notin backends
  /\ "luma" \in DOMAIN backend_health
  /\ ~backend_health["luma"]
  /\ mon_pc = "checking" /\ mon_idx = Len(backends_items)
  /\ pc[1] = "done"
  /\ pc[2] = "invoking" /\ Len(frames[2]) = 2

\* every enabled, constructed and healthy backend is at its cap
AllAtCap ==
  \A b \in backends :
    (enabled[b] /\ backend_health[b]) => backend_tasks[b] >= max_concurrent_tasks[b]

\* C38: a scene whose generate_video starts while every enabled, healthy
\* backend is at its cap is not queued: the call returns at once, failed for
\* want of a backend and with nothing reserved, and the batch reports the
\* scene as failed whatever capacity is free by then.
C38_NoQueueingAtCap ==
  /\ [][\A i \in Scenes :
          (SceneEnter(i) /\ AllAtCap) =>
            /\ pc'[i] = "done"
            /\ task'[i].status = FAILED
            /\ task'[i].error_message = ERR_NO_BACKEND
            /\ backend_tasks' = backend_tasks]_vars
  /\ [](results # <<>> =>
          \A i \in Scenes :
            (pc[i] = "done" /\ task[i].error_message = ERR_NO_BACKEND) =>
              /\ ~results[i].success
              /\ results[i].error = ERR_NO_BACKEND)

\* C38 witness: two scenes were let in together with one backend of cap 1
\* healthy; the first was generated, the second is reported failed for want
\* of a backend, and the backend is free again.
C38_Witness ==
  /\ max_concurrent = 2
  /\ Len(results) = 2
  /\ results[1].success
  /\ ~results[2].success /\ results[2].error = ERR_NO_BACKEND
  /\ \E b \in backends : backend_health[b] /\ backend_tasks[b] = 0

\* the wait loop of call c sleeps between two polls
Sleeping(c) == Waiting(c) /\ adapter_pc[c] = "sleeping"

\* C39: a poll answered with a status the adapter's status_map has no key
\* for leaves the task pending and the wait loop asleep before its next
\* poll; the sleep ends, and the loop polls again unless max_wait_time is
\* used up.
C39_UnknownStatusKeepsPolling ==
  /\ [][\A c \in Calls :
          AdapterPoll(c, "other") =>
            /\ task'[c].status = PENDING
            /\ pc'[c] = "invoking"
            /\ attempt'[c] = Len(frames'[c])
            /\ adapter_pc'[c] = "sleeping"]_vars
  /\ [](\A c \in Calls :
          /\ Sleeping(c) => ENABLED AdapterSleepEnds(c)
          /\ (Waiting(c) /\ adapter_pc[c] = "polling") =>
               \A answer \in ProviderAnswers : ENABLED AdapterPoll(c, answer))
  /\ [][\A c \in Calls :
          (/\ AdapterSleepEnds(c)
           /\ waited_time'[c] < WaitLimits(Current(c)).max_wait_time) =>
             /\ adapter_pc'[c] = "polling"
             /\ pc'[c] = "invoking"
             /\ attempt'[c] = Len(frames'[c])
             /\ task'[c] = task[c]]_vars

\* C39 witness: the task, accepted as processing, is pending after a poll
\* and the wait loop, having slept, is about to poll a third time.
C39_Witness ==
  /\ Waiting(1)
  /\ adapter_pc[1] = "polling"
  /\ polls[1] = 2
  /\ task[1].status = PENDING

====
